---------------------------- MODULE Spec2Model ----------------------------
(***************************************************************************)
(* sgr_macros: procedural macros that wrap text in ANSI SGR control        *)
(* sequences.  One expansion of one macro is modelled: the token cursor    *)
(* over the macro's input, the parsers of src/sgr/base.rs, src/sgr/rgb.rs  *)
(* and src/sgr/color.rs, and the generators of src/sgr.rs and              *)
(* src/sgr/traits.rs.                                                      *)
(*                                                                         *)
(* Text is a sequence of one-character strings; the escape byte 0x1B is    *)
(* the element "ESC".  A token is a record [k, v]: k = "p" a punctuation   *)
(* or keyword token, "str" a string literal (v its value), "int" an        *)
(* integer literal (v its value), "float" a float literal (v its value in  *)
(* thousandths), "id" an identifier, "grp" a parenthesized group (v its    *)
(* tokens).                                                                *)
(***************************************************************************)
EXTENDS Integers, Sequences, FiniteSets, TLC

VARIABLES
    entry,      \* the macro invoked: [name, kind, start, end, bg]
    feature,    \* cfg!(feature = "const")
    input,      \* the macro's input token stream
    pos,        \* the cursor: index of the next token of input
    pc,         \* stage of the expansion
    color,      \* the colour argument: the index of color_256, the Rgb of
                \* color_rgb, the ColorSetPair of color (<<>> if none)
    color_revert, \* SgrColor.color_revert
    output,     \* Behavior.output
    revert,     \* Behavior.revert
    template,   \* Option<LitStr>: <<>> is None, <<t>> is Some(t)
    get_more,   \* get_more of SgrBase::parse
    contents,   \* SgrBase.contents
    unexpected, \* the stream's record of tokens left unparsed in a group
    err,        \* the syn::Error of a failed expansion: [msg, at], at a token index
    out         \* the generated call: [call, fmt, end, lit, args]

vars == <<entry, feature, input, pos, pc, color, color_revert, output, revert,
          template, get_more, contents, unexpected, err, out>>

----------------------------------------------------------------------------
(* Bounds of the model. *)

\* The longest macro body of Spec.
MaxLen == 4
\* The longest colour pair and the longest body of SpecColor.
MaxPair == 3
MaxBody == 2

----------------------------------------------------------------------------
(* Text *)

ESC == "ESC"

Digit == <<"0", "1", "2", "3", "4", "5", "6", "7", "8", "9">>

RECURSIVE Dec(_)
Dec(n) == IF n < 10 THEN <<Digit[n + 1]>> ELSE Dec(n \div 10) \o <<Digit[(n % 10) + 1]>>

sgr(params) == <<ESC, "[">> \o params \o <<"m">>

RECURSIVE Flatten(_)
Flatten(ss) == IF ss = <<>> THEN <<>> ELSE Head(ss) \o Flatten(Tail(ss))

----------------------------------------------------------------------------
(* Tokens and the cursor *)

P(c) == [k |-> "p", v |-> c]
S(t) == [k |-> "str", v |-> t]
I(n) == [k |-> "int", v |-> n]
Id(x) == [k |-> "id", v |-> x]
F(m) == [k |-> "float", v |-> m]
G(ts) == [k |-> "grp", v |-> ts]

HasTok(inp, p) == p >= 1 /\ p <= Len(inp)
IsP(inp, p, c) == HasTok(inp, p) /\ inp[p].k = "p" /\ inp[p].v = c
IsKind(inp, p, kind) == HasTok(inp, p) /\ inp[p].k = kind

\* The result of a parser: the value or the error (msg, at the token index at),
\* the cursor it leaves, and unx: whether it left unparsed tokens behind in a
\* delimited group, which syn records in the stream and reports once the whole
\* input is parsed.
Ok(v, p) == [ok |-> TRUE, v |-> v, pos |-> p, msg |-> "", at |-> 0, unx |-> FALSE]
Err(msg, at, p) ==
    [ok |-> FALSE, v |-> <<>>, pos |-> p, msg |-> msg, at |-> at, unx |-> FALSE]
WithUnx(r, u) == [r EXCEPT !.unx = r.unx \/ u]

\* todo!() panics: no parser catches it, and the expansion aborts.
PanicMsg == "not yet implemented"
IsPanic(r) == ~r.ok /\ r.msg = PanicMsg

NoErr == [msg |-> "", at |-> 0]

----------------------------------------------------------------------------
(* src/sgr/base.rs: Output, Revert, Behavior *)

needs_template(o) == o \in {"ConstFormat", "Format", "String"}

Output_has_sigil(o) == o # "Concat"

Revert_has_sigil(r) == r # "One"

\* Output::parse without the cfg! test of the `#` sigil.
Output_parse_unchecked(inp, p, feat) ==
    IF IsP(inp, p, "@") THEN Ok("String", p + 1)
    ELSE IF IsP(inp, p, "%") THEN Ok("Format", p + 1)
    ELSE IF IsP(inp, p, "#") THEN Ok("ConstFormat", p + 1)
    ELSE Ok("Concat", p)

Output_parse(inp, p, feat) ==
    IF IsP(inp, p, "@") THEN Ok("String", p + 1)
    ELSE IF IsP(inp, p, "%") THEN Ok("Format", p + 1)
    ELSE IF IsP(inp, p, "#") THEN
        IF ~feat
        THEN Err("mode sigil requires the \"const\" feature", p, p + 1)
        ELSE Ok("ConstFormat", p + 1)
    ELSE Ok("Concat", p)

Revert_parse(inp, p) ==
    IF IsP(inp, p, "!") THEN Ok("None", p + 1)
    ELSE IF IsP(inp, p, "*") THEN Ok("All", p + 1)
    ELSE Ok("One", p)

\* Behavior::parse without its comma.
Behavior_comma_never(inp, p, o, r) == p

Behavior_comma(inp, p, o, r) ==
    IF Output_has_sigil(o) \/ Revert_has_sigil(r)
    THEN (IF IsP(inp, p, ",") THEN p + 1 ELSE p)
    ELSE p

\* Behavior::parse with the revert sigil parsed before the output sigil.
Behavior_parse_revert_first(inp, p, feat) ==
    LET r == Revert_parse(inp, p)
        o == Output_parse(inp, r.pos, feat)
    IN  IF ~o.ok THEN o
        ELSE Ok([output |-> o.v, revert |-> r.v], Behavior_comma(inp, o.pos, o.v, r.v))

Behavior_parse(inp, p, feat) ==
    LET o == Output_parse(inp, p, feat) IN
    IF ~o.ok THEN o
    ELSE LET r == Revert_parse(inp, o.pos) IN
         Ok([output |-> o.v, revert |-> r.v], Behavior_comma(inp, r.pos, o.v, r.v))

----------------------------------------------------------------------------
(* src/sgr/base.rs: SgrBase::parse *)

ImplicitTemplate == <<"{", "}">>

\* SgrBase::parse taking more tokens after a template literal without a comma.
SgrBase_template_more(inp, p, o) ==
    IF needs_template(o) THEN
        IF IsKind(inp, p, "str")
        THEN [template |-> <<inp[p].v>>,
              get_more |-> TRUE,
              pos |-> IF IsP(inp, p + 1, ",") THEN p + 2 ELSE p + 1]
        ELSE [template |-> <<ImplicitTemplate>>, get_more |-> TRUE, pos |-> p]
    ELSE [template |-> <<>>, get_more |-> TRUE, pos |-> p]

\* SgrBase::parse taking a template literal in every output mode.
SgrBase_template_always(inp, p, o) ==
    IF IsKind(inp, p, "str")
    THEN [template |-> <<inp[p].v>>,
          get_more |-> IsP(inp, p + 1, ","),
          pos |-> IF IsP(inp, p + 1, ",") THEN p + 2 ELSE p + 1]
    ELSE IF needs_template(o)
    THEN [template |-> <<ImplicitTemplate>>, get_more |-> TRUE, pos |-> p]
    ELSE [template |-> <<>>, get_more |-> TRUE, pos |-> p]

SgrBase_template(inp, p, o) ==
    IF needs_template(o) THEN
        IF IsKind(inp, p, "str")
        THEN [template |-> <<inp[p].v>>,
              get_more |-> IsP(inp, p + 1, ","),
              pos |-> IF IsP(inp, p + 1, ",") THEN p + 2 ELSE p + 1]
        ELSE [template |-> <<ImplicitTemplate>>, get_more |-> TRUE, pos |-> p]
    ELSE [template |-> <<>>, get_more |-> TRUE, pos |-> p]

SgrBase_contents(inp, p, more) ==
    IF more /\ p <= Len(inp)
    THEN [contents |-> SubSeq(inp, p, Len(inp)), pos |-> Len(inp) + 1]
    ELSE [contents |-> <<>>, pos |-> p]

SgrBase_parse(inp, p, feat) ==
    LET b == Behavior_parse(inp, p, feat) IN
    IF ~b.ok THEN b
    ELSE LET t == SgrBase_template(inp, b.pos, b.v.output)
             c == SgrBase_contents(inp, t.pos, t.get_more)
         IN  Ok([behavior |-> b.v, template |-> t.template, contents |-> c.contents],
                c.pos)

----------------------------------------------------------------------------
(* src/sgr/rgb.rs *)

U8Max == 255

\* A u32 is held as its top byte hi and its low 24 bits lo (the integers of
\* the model checker are narrower than u32).  An integer literal of the model
\* is below 2^31 and always fits u32.
Low24 == 16777216
U32(n) == [hi |-> n \div Low24, lo |-> n % Low24]

accept_value(value) ==
    IF value.hi = 0 THEN [ok |-> TRUE, v |-> value]
    ELSE [ok |-> FALSE, v |-> value]

\* expand_rgb_rrggbb repeating the three digits instead of doubling each.
expand_rgb_rgbrgb(rgb) ==
    IF Len(rgb) = 3
    THEN <<<<rgb[1], rgb[2], rgb[3], rgb[1], rgb[2], rgb[3]>>>>
    ELSE <<>>

expand_rgb_rrggbb(rgb) ==
    IF Len(rgb) = 3
    THEN <<<<rgb[1], rgb[1], rgb[2], rgb[2], rgb[3], rgb[3]>>>>
    ELSE <<>>

\* word.to_le_bytes() read as [a, r, g, b] without the top byte.
Rgb_from_u32_le(word) ==
    [a |-> word.hi,
     r |-> word.lo % 256,
     g |-> (word.lo \div 256) % 256,
     b |-> (word.lo \div 65536) % 256]

\* word.to_be_bytes()
Rgb_from_u32(word) ==
    [a |-> word.hi,
     r |-> (word.lo \div 65536) % 256,
     g |-> (word.lo \div 256) % 256,
     b |-> word.lo % 256]

\* u32::from_le_bytes([a, r, g, b])
u32_from_Rgb_le(rgb) == [hi |-> rgb.b, lo |-> rgb.g * 65536 + rgb.r * 256 + rgb.a]

\* u32::from_be_bytes([a, r, g, b])
u32_from_Rgb(rgb) == [hi |-> rgb.a, lo |-> rgb.r * 65536 + rgb.g * 256 + rgb.b]

HexLower == <<"0", "1", "2", "3", "4", "5", "6", "7", "8", "9",
              "a", "b", "c", "d", "e", "f">>
HexUpper == <<"0", "1", "2", "3", "4", "5", "6", "7", "8", "9",
              "A", "B", "C", "D", "E", "F">>

IsHexDigit(c) == \E i \in 1..16 : HexLower[i] = c \/ HexUpper[i] = c
HexValue(c) == (CHOOSE i \in 1..16 : HexLower[i] = c \/ HexUpper[i] = c) - 1

NoRgb == [a |-> 0, r |-> 0, g |-> 0, b |-> 0]

NoWord == [hi |-> -1, lo |-> 0]
IsWord(w) == w.hi >= 0

RECURSIVE HexDigits(_, _)
\* The value of a run of hex digits after acc, or NoWord: an invalid digit or
\* an overflow of u32.
HexDigits(s, acc) ==
    IF s = <<>> THEN acc
    ELSE IF ~IsHexDigit(Head(s)) THEN NoWord
    ELSE LET lo == acc.lo * 16 + HexValue(Head(s))
             hi == acc.hi * 16 + (lo \div Low24)
         IN  IF hi > U8Max THEN NoWord
             ELSE HexDigits(Tail(s), [hi |-> hi, lo |-> lo % Low24])

\* u32::from_str_radix(s, 16): NoWord stands for Err.
u32_from_str_radix16(s) ==
    IF s = <<>> \/ s = <<"+">> THEN NoWord
    ELSE HexDigits(IF Head(s) = "+" THEN Tail(s) ELSE s, [hi |-> 0, lo |-> 0])

strip_prefix(s, pre) ==
    IF Len(s) >= Len(pre) /\ SubSeq(s, 1, Len(pre)) = pre
    THEN <<SubSeq(s, Len(pre) + 1, Len(s))>>
    ELSE <<>>

HexPrefixes == << <<"#">>, <<"0", "x">>, <<"0", "X">> >>

\* s.strip_prefix("#").or_else(..."0x").or_else(..."0X")
Rgb_inner_hex(s) ==
    LET hits == {i \in 1..3 : Len(s) >= Len(HexPrefixes[i])
                                /\ SubSeq(s, 1, Len(HexPrefixes[i])) = HexPrefixes[i]}
    IN  IF hits = {} THEN <<>>
        ELSE strip_prefix(s, HexPrefixes[CHOOSE i \in hits : \A j \in hits : i <= j])

\* The number of a hex string: the doubled form of three digits if that is a
\* number, else the digits as they are.
Rgb_hex_word(number) ==
    LET rrggbb == expand_rgb_rrggbb(number)
        cands == IF rrggbb # <<>> THEN <<rrggbb[1], number>> ELSE <<number>>
        words == [i \in 1..Len(cands) |-> u32_from_str_radix16(cands[i])]
        good == {i \in 1..Len(cands) : IsWord(words[i])}
    IN  IF good = {} THEN NoWord
        ELSE words[CHOOSE i \in good : \A j \in good : i <= j]

Rgb_from_str(s) ==
    LET inner_hex == Rgb_inner_hex(s)
        word == IF inner_hex # <<>> THEN Rgb_hex_word(inner_hex[1]) ELSE NoWord
    IN  IF IsWord(word) THEN [ok |-> TRUE, v |-> Rgb_from_u32(word)]
        ELSE [ok |-> FALSE, v |-> NoRgb]

\* RgbNumber::parse rounding a float channel to the nearest byte.
RgbNumber_parse_round(inp, p) ==
    IF IsKind(inp, p, "int") THEN
        IF inp[p].v >= 0 /\ inp[p].v <= U8Max
        THEN Ok(inp[p].v, p + 1)
        ELSE Err("number too large to fit in target type", p, p + 1)
    ELSE IF IsKind(inp, p, "float") THEN
        IF inp[p].v < 0 THEN Err("RGB channel cannot be negative", p, p + 1)
        ELSE IF 1000 < inp[p].v THEN Err("RGB channel cannot exceed 1.0", p, p + 1)
        ELSE Ok((inp[p].v * U8Max + 500) \div 1000, p + 1)
    ELSE Err("expected floating point literal", p, p)

\* RgbNumber::parse, on the tokens of a group.
RgbNumber_parse(inp, p) ==
    IF IsKind(inp, p, "int") THEN
        IF inp[p].v >= 0 /\ inp[p].v <= U8Max
        THEN Ok(inp[p].v, p + 1)
        ELSE Err("number too large to fit in target type", p, p + 1)
    ELSE IF IsKind(inp, p, "float") THEN
        IF inp[p].v < 0 THEN Err("RGB channel cannot be negative", p, p + 1)
        ELSE IF 1000 < inp[p].v THEN Err("RGB channel cannot exceed 1.0", p, p + 1)
        ELSE Ok((inp[p].v * U8Max) \div 1000, p + 1)
    ELSE Err("expected floating point literal", p, p)

\* The tuple form of Rgb::parse, on the tokens of the group: r, then `,` g,
\* then `,` b.
Rgb_tuple_b(r, g, b) ==
    IF ~b.ok THEN b
    ELSE Ok([a |-> 0, r |-> r.v, g |-> g.v, b |-> b.v], b.pos)

Rgb_tuple_g(inner, r, g) ==
    IF ~g.ok THEN g
    ELSE IF ~IsP(inner, g.pos, ",") THEN Err("expected ,", g.pos, g.pos)
    ELSE Rgb_tuple_b(r, g, RgbNumber_parse(inner, g.pos + 1))

Rgb_tuple_r(inner, r) ==
    IF ~r.ok THEN r
    ELSE IF ~IsP(inner, r.pos, ",") THEN Err("expected ,", r.pos, r.pos)
    ELSE Rgb_tuple_g(inner, r, RgbNumber_parse(inner, r.pos + 1))

Rgb_parse_tuple(inner) == Rgb_tuple_r(inner, RgbNumber_parse(inner, 1))

\* parenthesized!: the group is taken from the input whatever its parse gives,
\* and tokens of the group left unparsed are recorded.
Rgb_group(t, len, p) ==
    [ok |-> t.ok, v |-> t.v, pos |-> p + 1, msg |-> t.msg,
     at |-> IF t.ok THEN 0 ELSE p, unx |-> t.pos <= len]

\* The string form: a hex colour, or todo!().
Rgb_string(rgb, p) ==
    IF rgb.ok THEN Ok(rgb.v, p + 1) ELSE Err(PanicMsg, p, p + 1)

\* The integer form: a literal is consumed, then checked.
Rgb_integer(n, p) ==
    IF accept_value(U32(n)).ok THEN Ok(Rgb_from_u32(U32(n)), p + 1)
    ELSE Err("RGB color value exceeds 24 bits", p, p + 1)

Rgb_parse(inp, p) ==
    IF IsKind(inp, p, "grp")
    THEN Rgb_group(Rgb_parse_tuple(inp[p].v), Len(inp[p].v), p)
    ELSE IF IsKind(inp, p, "str") THEN Rgb_string(Rgb_from_str(inp[p].v), p)
    ELSE IF IsKind(inp, p, "int") THEN Rgb_integer(inp[p].v, p)
    ELSE Err("expected integer literal", p, p)

----------------------------------------------------------------------------
(* src/sgr.rs: the indexed and RGB entry points, and the generator *)

color_bg(BG) == IF BG THEN 48 ELSE 38

\* Sgr256::parse up to the SgrBase: the colour index and the `;`.
Sgr256_arg(inp, p) ==
    IF ~IsKind(inp, p, "int") THEN Err("expected integer literal", p, p)
    ELSE IF inp[p].v < 0 \/ inp[p].v > U8Max
    THEN Err("number too large to fit in target type", p, p + 1)
    ELSE IF ~IsP(inp, p + 1, ";") THEN Err("expected ;", p + 1, p + 1)
    ELSE Ok(inp[p].v, p + 2)

\* The `;` after a colour argument r.
expect_semi(inp, r) ==
    IF ~r.ok THEN r
    ELSE IF ~IsP(inp, r.pos, ";")
    THEN [r EXCEPT !.ok = FALSE, !.v = <<>>, !.msg = "expected ;", !.at = r.pos]
    ELSE [r EXCEPT !.pos = r.pos + 1]

\* SgrRgb::parse up to the SgrBase: the colour and the `;`.
SgrRgb_arg(inp, p) == expect_semi(inp, Rgb_parse(inp, p))

Semi == <<";">>

\* fmt_opening of SgrFormat, Sgr256 and SgrRgb.
fmt_opening(e, c) ==
    CASE e.kind = "fmt" -> Dec(e.start)
      [] e.kind = "c256" -> Dec(color_bg(e.bg)) \o Semi \o <<"5">> \o Semi \o Dec(c)
      [] e.kind = "rgb" ->
            Dec(color_bg(e.bg)) \o Semi \o <<"2">> \o Semi \o Dec(c.r)
                \o Semi \o Dec(c.g) \o Semi \o Dec(c.b)

\* fmt_closing giving the opening code of a named entry.
fmt_closing_start(e) ==
    IF e.kind = "fmt" THEN Dec(e.start) ELSE Dec(color_bg(e.bg) + 1)

\* fmt_closing of SgrFormat, Sgr256 and SgrRgb.
fmt_closing(e) ==
    IF e.kind = "fmt" THEN Dec(e.end) ELSE Dec(color_bg(e.bg) + 1)

\* The closing text with All treated like One.
tokens_end_one(r, closing) ==
    CASE r = "One" -> sgr(closing)
      [] r = "All" -> sgr(closing)
      [] r = "None" -> <<>>

\* The closing text of SgrData::tokens.
tokens_end(r, closing) ==
    CASE r = "One" -> sgr(closing)
      [] r = "All" -> sgr(<<>>)
      [] r = "None" -> <<>>

GenPanic == [call |-> "panic", fmt |-> <<>>, end |-> <<>>, lit |-> <<>>, args |-> <<>>]

OutputCall(o) ==
    CASE o = "Concat" -> "concat!"
      [] o = "ConstFormat" -> "formatcp!"
      [] o = "Format" -> "format_args!"
      [] o = "String" -> "format!"

\* The generated call with the closing text put before the contents.
tokens_expr_end_first(fmt, end, o, tmpl, cont) ==
    IF o = "Concat" THEN
        IF tmpl # <<>> THEN GenPanic
        ELSE [call |-> OutputCall(o), fmt |-> fmt \o end, end |-> <<>>, lit |-> <<>>,
              args |-> cont]
    ELSE
        IF tmpl = <<>> THEN GenPanic
        ELSE [call |-> OutputCall(o), fmt |-> fmt, end |-> end,
              lit |-> fmt \o end \o tmpl[1], args |-> cont]

\* The generated call with the closing text left out of the template literal.
tokens_expr_open(fmt, end, o, tmpl, cont) ==
    IF o = "Concat" THEN
        IF tmpl # <<>> THEN GenPanic
        ELSE [call |-> OutputCall(o), fmt |-> fmt, end |-> end, lit |-> <<>>,
              args |-> cont]
    ELSE
        IF tmpl = <<>> THEN GenPanic
        ELSE [call |-> OutputCall(o), fmt |-> fmt, end |-> end,
              lit |-> fmt \o tmpl[1], args |-> cont]

\* The call generated from the opening text fmt and the closing text end:
\* concat!(concat!(fmt, args), end), or <call>(lit, args) with the template
\* literal lit.  The assert! and the unwrap() panic.
tokens_expr(fmt, end, o, tmpl, cont) ==
    IF o = "Concat" THEN
        IF tmpl # <<>> THEN GenPanic
        ELSE [call |-> OutputCall(o), fmt |-> fmt, end |-> end, lit |-> <<>>,
              args |-> cont]
    ELSE
        IF tmpl = <<>> THEN GenPanic
        ELSE [call |-> OutputCall(o), fmt |-> fmt, end |-> end,
              lit |-> fmt \o tmpl[1] \o end, args |-> cont]

\* SgrData::tokens of src/sgr.rs.
SgrData_tokens(e, c, o, r, tmpl, cont) ==
    tokens_expr(sgr(fmt_opening(e, c)), tokens_end(r, fmt_closing(e)), o, tmpl, cont)

----------------------------------------------------------------------------
(* src/sgr/color.rs: colours *)

COLOR_SET == 38
COLOR_RESET == 39
OFFSET_BG == 10
OFFSET_BRIGHT == 60

color_bg_code(c, bg) == IF bg THEN (c + OFFSET_BG) % 256 ELSE c
color_bright(c, bright) == IF bright THEN (c + OFFSET_BRIGHT) % 256 ELSE c
color_set(bg) == color_bg_code(COLOR_SET, bg)
color_reset(bg) == color_bg_code(COLOR_RESET, bg)

UpperCase == <<"A", "B", "C", "D", "E", "F", "G", "H", "I", "J", "K", "L", "M",
               "N", "O", "P", "Q", "R", "S", "T", "U", "V", "W", "X", "Y", "Z">>
LowerCase == <<"a", "b", "c", "d", "e", "f", "g", "h", "i", "j", "k", "l", "m",
               "n", "o", "p", "q", "r", "s", "t", "u", "v", "w", "x", "y", "z">>

to_lowercase_char(c) ==
    IF \E i \in 1..26 : UpperCase[i] = c
    THEN LowerCase[CHOOSE i \in 1..26 : UpperCase[i] = c]
    ELSE c
to_lowercase(s) == [i \in 1..Len(s) |-> to_lowercase_char(s[i])]

RECURSIVE trim_start(_)
trim_start(s) == IF s # <<>> /\ Head(s) = " " THEN trim_start(Tail(s)) ELSE s
RECURSIVE trim_end(_)
trim_end(s) ==
    IF s # <<>> /\ s[Len(s)] = " " THEN trim_end(SubSeq(s, 1, Len(s) - 1)) ELSE s
trim(s) == trim_end(trim_start(s))

\* The names of ColorNamed with their discriminants.
ColorNames ==
    << <<<<"b","l","a","c","k">>, 30>>, <<<<"r","e","d">>, 31>>,
       <<<<"g","r","e","e","n">>, 32>>, <<<<"y","e","l","l","o","w">>, 33>>,
       <<<<"b","l","u","e">>, 34>>, <<<<"m","a","g","e","n","t","a">>, 35>>,
       <<<<"c","y","a","n">>, 36>>, <<<<"w","h","i","t","e">>, 37>>,
       <<<<"d","e","f","a","u","l","t">>, COLOR_RESET>> >>

Basic(c, bright) == [t |-> "Basic", color |-> c, bright |-> bright, idx |-> 0, rgb |-> NoRgb]
Indexed(n) == [t |-> "Indexed", color |-> 0, bright |-> FALSE, idx |-> n, rgb |-> NoRgb]
RgbColor(rgb) == [t |-> "Rgb", color |-> 0, bright |-> FALSE, idx |-> 0, rgb |-> rgb]

ColorBasic_code(c, bg) == color_bg_code(color_bright(c.color, c.bright), bg)

\* ColorBasic::parse matching the text of the literal as it is written.
ColorBasic_parse_cased(inp, p) ==
    IF IsP(inp, p, "_") THEN Ok(Basic(COLOR_RESET, FALSE), p + 1)
    ELSE IF ~IsKind(inp, p, "str") THEN Err("expected string literal", p, p)
    ELSE
        LET value == inp[p].v
            base == strip_prefix(trim(value), <<"b","r","i","g","h","t">>)
            bright == base # <<>>
            color_name == IF bright THEN base[1] ELSE value
            found == {i \in 1..Len(ColorNames) : ColorNames[i][1] = trim(color_name)}
        IN  IF found = {} THEN Err("invalid color", p, p + 1)
            ELSE Ok(Basic(ColorNames[CHOOSE i \in found : TRUE][2], bright), p + 1)

ColorBasic_parse(inp, p) ==
    IF IsP(inp, p, "_") THEN Ok(Basic(COLOR_RESET, FALSE), p + 1)
    ELSE IF ~IsKind(inp, p, "str") THEN Err("expected string literal", p, p)
    ELSE
        LET value == to_lowercase(inp[p].v)
            base == strip_prefix(trim(value), <<"b","r","i","g","h","t">>)
            bright == base # <<>>
            color_name == IF bright THEN base[1] ELSE value
            found == {i \in 1..Len(ColorNames) : ColorNames[i][1] = trim(color_name)}
        IN  IF found = {} THEN Err("invalid color", p, p + 1)
            ELSE Ok(Basic(ColorNames[CHOOSE i \in found : TRUE][2], bright), p + 1)

Indexed_parse(inp, p) ==
    IF ~IsKind(inp, p, "int") THEN Err("expected integer literal", p, p)
    ELSE IF inp[p].v < 0 \/ inp[p].v > U8Max
    THEN Err("number too large to fit in target type", p, p + 1)
    ELSE Ok(Indexed(inp[p].v), p + 1)

\* ColorAny::params giving the foreground parameters on either side.
ColorAny_params_fg(c, bg) ==
    CASE c.t = "Basic" -> Dec(ColorBasic_code(c, FALSE))
      [] c.t = "Indexed" -> Dec(color_set(FALSE)) \o <<";", "5", ";">> \o Dec(c.idx)
      [] c.t = "Rgb" ->
            Dec(color_set(FALSE)) \o <<";", "2", ";">> \o Dec(c.rgb.r) \o <<";">>
                \o Dec(c.rgb.g) \o <<";">> \o Dec(c.rgb.b)

ColorAny_params(c, bg) ==
    CASE c.t = "Basic" -> Dec(ColorBasic_code(c, bg))
      [] c.t = "Indexed" -> Dec(color_set(bg)) \o <<";", "5", ";">> \o Dec(c.idx)
      [] c.t = "Rgb" ->
            Dec(color_set(bg)) \o <<";", "2", ";">> \o Dec(c.rgb.r) \o <<";">>
                \o Dec(c.rgb.g) \o <<";">> \o Dec(c.rgb.b)

\* ColorAny::parse trying Rgb before Indexed.
ColorAny_first_rgb(basic, indexed, rgb) ==
    IF basic.ok THEN basic
    ELSE IF rgb.ok THEN [rgb EXCEPT !.v = RgbColor(rgb.v)]
    ELSE indexed

\* The forks of ColorAny::parse leave the cursor alone; the alternative taken
\* parses the input itself, with the result its fork had.
ColorAny_first(basic, indexed, rgb) ==
    IF basic.ok THEN basic
    ELSE IF indexed.ok THEN indexed
    ELSE IF rgb.ok THEN [rgb EXCEPT !.v = RgbColor(rgb.v)]
    ELSE rgb

ColorAny_parse(inp, p) ==
    ColorAny_first(ColorBasic_parse(inp, p), Indexed_parse(inp, p), Rgb_parse(inp, p))

----------------------------------------------------------------------------
(* src/sgr/color.rs: ColorChange and the pairs.  An Option is <<>> (None) or *)
(* <<x>> (Some(x)).                                                          *)

NoColor == [t |-> "None", color |-> 0, bright |-> FALSE, idx |-> 0, rgb |-> NoRgb]
Set(c) == [t |-> "Set", c |-> c]
Reset == [t |-> "Reset", c |-> NoColor]
NoChange == [t |-> "NoChange", c |-> NoColor]

IsSet(o) == o # <<>> /\ o[1].t = "Set"

\* ColorChange::mix giving the revert side whatever was set.
ColorChange_mix_revert(set, rev) == rev

\* ColorChange::mix honouring a requested Reset whatever was set.
ColorChange_mix_reset(set, rev) ==
    IF IsSet(set) THEN rev
    ELSE IF IsSet(rev) THEN rev
    ELSE IF rev # <<>> /\ rev[1].t \in {"NoChange", "Reset"} THEN rev
    ELSE <<>>

ColorChange_mix(set, rev) ==
    IF IsSet(set) THEN rev
    ELSE IF IsSet(rev) THEN rev
    ELSE IF rev # <<>> /\ rev[1].t = "NoChange" THEN rev
    ELSE <<>>

ColorChange_params(cc, bg) ==
    CASE cc.t = "Set" -> <<ColorAny_params(cc.c, bg)>>
      [] cc.t = "Reset" -> <<Dec(color_reset(bg))>>
      [] cc.t = "NoChange" -> <<>>

\* A colour c that fails to parse is a Reset, with the cursor where the failed
\* attempt left it.
ColorChange_of(c) ==
    IF c.ok THEN [c EXCEPT !.v = Set(c.v)]
    ELSE IF IsPanic(c) THEN c
    ELSE [c EXCEPT !.ok = TRUE, !.v = Reset, !.msg = "", !.at = 0]

ColorChange_parse(inp, p) ==
    IF IsP(inp, p, "!") THEN Ok(NoChange, p + 1)
    ELSE ColorChange_of(ColorAny_parse(inp, p))

Pair(fg, bg) == [t |-> "Pair", fg |-> fg, bg |-> bg]
ResetAll == [t |-> "ResetAll", fg |-> <<>>, bg |-> <<>>]
ResetNone == [t |-> "ResetNone", fg |-> <<>>, bg |-> <<>>]

\* The background of a pair after the foreground f: Some(bg) parsed after `in`.
Pair_in(f, bg) ==
    IF bg.ok THEN [bg EXCEPT !.v = <<bg.v>>, !.unx = f.unx \/ bg.unx]
    ELSE WithUnx(bg, f.unx)

\* The `in` clause of a pair, after the foreground f.
Pair_bg(inp, f) ==
    IF IsP(inp, f.pos, "in") THEN Pair_in(f, ColorChange_parse(inp, f.pos + 1))
    ELSE [f EXCEPT !.v = <<>>]

\* ColorSetPair::parse accepting a pair without a side.
ColorSetPair_of_any(p, f, bg) ==
    IF ~bg.ok THEN bg
    ELSE [bg EXCEPT !.v = Pair(IF f.v.t = "Reset" THEN <<>> ELSE <<f.v>>, bg.v)]

\* ColorSetPair::parse after its two sides: a foreground that is a Reset is
\* filtered out, and a pair without a side is an error at the start of the pair.
ColorSetPair_of(p, f, bg) ==
    IF ~bg.ok THEN bg
    ELSE IF f.v.t = "Reset" /\ bg.v = <<>>
    THEN [bg EXCEPT !.ok = FALSE, !.v = <<>>, !.msg = "empty color", !.at = p]
    ELSE [bg EXCEPT !.v = Pair(IF f.v.t = "Reset" THEN <<>> ELSE <<f.v>>, bg.v)]

ColorSetPair_fg(inp, p, f) ==
    IF IsPanic(f) THEN f ELSE ColorSetPair_of(p, f, Pair_bg(inp, f))

ColorSetPair_parse(inp, p) ==
    IF IsP(inp, p, "*") THEN Ok(Pair(<<Reset>>, <<Reset>>), p + 1)
    ELSE ColorSetPair_fg(inp, p, ColorChange_parse(inp, p))

Join(parts, sep) ==
    IF parts = <<>> THEN <<>>
    ELSE Flatten([i \in 1..Len(parts) |->
                    IF i = 1 THEN parts[i] ELSE sep \o parts[i]])

\* SgrCode::params of a pair of Option<ColorChange>: an Option<String>.
Pair_params(fg, bg) ==
    IF fg = <<>> /\ bg = <<>> THEN <<>>
    ELSE IF bg = <<>> THEN ColorChange_params(fg[1], FALSE)
    ELSE IF fg = <<>> THEN ColorChange_params(bg[1], TRUE)
    ELSE LET colors == ColorChange_params(fg[1], FALSE) \o ColorChange_params(bg[1], TRUE)
             params == Join(colors, <<";">>)
         IN  IF params # <<>> THEN <<params>> ELSE <<>>

ColorSetPair_params(pair) == Pair_params(pair.fg, pair.bg)

reset_either == Pair(<<Reset>>, <<Reset>>)

ColorRevertPair_of(f, bg) ==
    IF ~bg.ok THEN bg ELSE [bg EXCEPT !.v = Pair(<<f.v>>, bg.v)]

ColorRevertPair_fg(inp, f) ==
    IF IsPanic(f) THEN f ELSE ColorRevertPair_of(f, Pair_bg(inp, f))

ColorRevertPair_parse(inp, p) ==
    IF IsP(inp, p, "!") THEN Ok(ResetNone, p + 1)
    ELSE IF IsP(inp, p, "*") THEN Ok(ResetAll, p + 1)
    ELSE ColorRevertPair_fg(inp, ColorChange_parse(inp, p))

ColorRevertPair_params(pair) ==
    CASE pair.t = "Pair" -> Pair_params(pair.fg, pair.bg)
      [] pair.t = "ResetAll" -> <<<<"3", "9", ";", "4", "9">>>>
      [] pair.t = "ResetNone" -> <<>>

\* SgrCode::render printing absent parameters as an empty parameter list.
render_always(params) == sgr(IF params # <<>> THEN params[1] ELSE <<>>)

\* SgrCode::render of src/sgr/traits.rs
render(params) == IF params # <<>> THEN sgr(params[1]) ELSE <<>>

\* SgrColor::fmt_closing mixing ResetAll against the colours set, like a pair
\* of resets.
SgrColor_fmt_closing_mixed(cset, crev) ==
    IF crev.t = "Pair"
    THEN Pair(ColorChange_mix(cset.fg, crev.fg), ColorChange_mix(cset.bg, crev.bg))
    ELSE IF crev.t = "ResetAll"
    THEN Pair(ColorChange_mix(cset.fg, <<Reset>>), ColorChange_mix(cset.bg, <<Reset>>))
    ELSE crev

\* SgrColor::fmt_closing
SgrColor_fmt_closing(cset, crev) ==
    IF crev.t = "Pair"
    THEN Pair(ColorChange_mix(cset.fg, crev.fg), ColorChange_mix(cset.bg, crev.bg))
    ELSE crev

\* SgrData::tokens of src/sgr/traits.rs, for SgrColor.
SgrColor_tokens(cset, crev, o, tmpl, cont) ==
    tokens_expr(render(ColorSetPair_params(cset)),
                render(ColorRevertPair_params(SgrColor_fmt_closing(cset, crev))),
                o, tmpl, cont)

----------------------------------------------------------------------------
(* src/sgr/color.rs: SgrColor::parse *)

\* The colour pair and the `;` after it.
SgrColor_arg(inp, p) == expect_semi(inp, ColorSetPair_parse(inp, p))

\* The output sigil and the comma after it.
SgrColor_output(inp, p, feat) ==
    LET o == Output_parse(inp, p, feat) IN
    IF ~o.ok THEN o
    ELSE IF Output_has_sigil(o.v) /\ IsP(inp, o.pos, ",") THEN Ok(o.v, o.pos + 1)
    ELSE o

SgrColor_template(inp, p, o) ==
    IF needs_template(o) THEN
        IF IsKind(inp, p, "str")
        THEN [template |-> <<inp[p].v>>,
              get_more |-> IsP(inp, p + 1, ","),
              pos |-> IF IsP(inp, p + 1, ",") THEN p + 2 ELSE p + 1]
        ELSE [template |-> <<ImplicitTemplate>>, get_more |-> TRUE, pos |-> p]
    ELSE [template |-> <<>>, get_more |-> TRUE, pos |-> p]

\* The revert clause: after a `;` a ColorRevertPair, else reset_either.
SgrColor_revert(inp, p) ==
    IF IsP(inp, p, ";") THEN ColorRevertPair_parse(inp, p + 1)
    ELSE Ok(reset_either, p)

----------------------------------------------------------------------------
(* What the generated call evaluates to: concat! joins literals, the format  *)
(* macros substitute their arguments for the {} of the template literal.     *)
(* [ok |-> FALSE] is a call rustc rejects or an argument whose value is not  *)
(* modelled (an expression that is not one literal or one variable).         *)

NoText == [ok |-> FALSE, text |-> <<>>]
Text(t) == [ok |-> TRUE, text |-> t]

FirstComma(toks) ==
    IF \E i \in 1..Len(toks) : IsP(toks, i, ",")
    THEN CHOOSE i \in 1..Len(toks) :
            IsP(toks, i, ",") /\ \A j \in 1..(i - 1) : ~IsP(toks, j, ",")
    ELSE Len(toks) + 1

RECURSIVE SplitArgs(_)
\* The comma-separated arguments of a call; a trailing comma is allowed.
SplitArgs(toks) ==
    IF toks = <<>> THEN <<>>
    ELSE <<SubSeq(toks, 1, FirstComma(toks) - 1)>>
            \o SplitArgs(SubSeq(toks, FirstComma(toks) + 1, Len(toks)))

\* The value of the variable x at run time.
Env(x) == <<x>>

IsLiteralArg(arg) == Len(arg) = 1 /\ (arg[1].k = "str" \/ (arg[1].k = "int" /\ arg[1].v >= 0))
IsValueArg(arg) == IsLiteralArg(arg) \/ (Len(arg) = 1 /\ arg[1].k = "id")
ArgText(arg) ==
    CASE arg[1].k = "str" -> arg[1].v
      [] arg[1].k = "int" -> Dec(arg[1].v)
      [] arg[1].k = "id" -> Env(arg[1].v)

RECURSIVE Substitute(_, _)
\* The template with each {} replaced by the next argument; {{ and }} are
\* braces.  <<FALSE>> for any other use of a brace or a wrong argument count.
Substitute(lit, args) ==
    IF lit = <<>> THEN (IF args = <<>> THEN <<TRUE, <<>>>> ELSE <<FALSE>>)
    ELSE IF Head(lit) \in {"{", "}"} THEN
        IF Len(lit) < 2 THEN <<FALSE>>
        ELSE IF lit[2] = lit[1] THEN
            LET rest == Substitute(SubSeq(lit, 3, Len(lit)), args) IN
            IF rest[1] THEN <<TRUE, <<lit[1]>> \o rest[2]>> ELSE <<FALSE>>
        ELSE IF lit[1] = "{" /\ lit[2] = "}" /\ args # <<>> THEN
            LET rest == Substitute(SubSeq(lit, 3, Len(lit)), Tail(args)) IN
            IF rest[1] THEN <<TRUE, Head(args) \o rest[2]>> ELSE <<FALSE>>
        ELSE <<FALSE>>
    ELSE LET rest == Substitute(Tail(lit), args) IN
         IF rest[1] THEN <<TRUE, <<Head(lit)>> \o rest[2]>> ELSE <<FALSE>>

Render(o) ==
    LET args == SplitArgs(o.args) IN
    IF o.call = "panic" THEN NoText
    ELSE IF o.call = "concat!" THEN
        IF \A i \in 1..Len(args) : IsLiteralArg(args[i])
        THEN Text(o.fmt \o Flatten([i \in 1..Len(args) |-> ArgText(args[i])]) \o o.end)
        ELSE NoText
    ELSE
        IF \A i \in 1..Len(args) : IsValueArg(args[i])
        THEN LET r == Substitute(o.lit, [i \in 1..Len(args) |-> ArgText(args[i])]) IN
             IF r[1] THEN Text(r[2]) ELSE NoText
        ELSE NoText

----------------------------------------------------------------------------
(* Inputs *)

\* The token streams of n tokens drawn from toks.
Streams(toks, n) == [1..n -> toks]

T == <<"T">>

\* The tokens a macro body is drawn from: the five sigils, the comma, a string
\* literal without placeholders and a variable.
BodyToks == {P("@"), P("%"), P("#"), P("!"), P("*"), P(","), S(T), Id("x")}

Macro(name, kind, start, end, bg) ==
    [name |-> name, kind |-> kind, start |-> start, end |-> end, bg |-> bg]

\* def_sgr! entries of src/lib.rs, and color_256_bg.
green == Macro("green", "fmt", 32, 39, FALSE)
sgr_bold == Macro("sgr_bold", "fmt", 1, 22, FALSE)
color_256_bg == Macro("color_256_bg", "c256", 0, 0, TRUE)

\* The colour arguments color_256_bg is invoked with.
Args256 == {<<I(173), P(";")>>, <<I(256), P(";")>>}

Unset == "unset"
NoOut == [call |-> "", fmt |-> <<>>, end |-> <<>>, lit |-> <<>>, args |-> <<>>]

InitRest ==
    /\ pos = 1
    /\ pc = "start"
    /\ color = <<>>
    /\ color_revert = <<>>
    /\ output = Unset
    /\ revert = Unset
    /\ template = <<>>
    /\ get_more = FALSE
    /\ contents = <<>>
    /\ unexpected = FALSE
    /\ err = NoErr
    /\ out = NoOut

Init ==
    /\ feature \in BOOLEAN
    /\ \E n \in 0..MaxLen : \E b \in Streams(BodyToks, n) :
          \/ entry \in {green, sgr_bold} /\ input = <<>> \o b
          \/ entry = color_256_bg /\ \E a \in Args256 : input = a \o b
    /\ InitRest

----------------------------------------------------------------------------
(* The expansion of a macro of src/lib.rs, stage by stage *)

Fail(r) ==
    /\ pc' = IF IsPanic(r) THEN "panic" ELSE "error"
    /\ err' = [msg |-> r.msg, at |-> r.at]
    /\ pos' = r.pos
    /\ unexpected' = (unexpected \/ r.unx)

HasArg(e) == e.kind \in {"c256", "rgb", "color"}

\* The parse of a macro with a colour argument starts with that argument.
CanParseArg == pc = "start" /\ HasArg(entry)

\* Sgr256::parse, SgrRgb::parse and SgrColor::parse: the colour argument and
\* its `;`.
ParseArg ==
    /\ CanParseArg
    /\ LET r == CASE entry.kind = "c256" -> Sgr256_arg(input, pos)
                  [] entry.kind = "rgb" -> SgrRgb_arg(input, pos)
                  [] entry.kind = "color" -> SgrColor_arg(input, pos)
       IN  IF r.ok
           THEN /\ color' = r.v
                /\ pos' = r.pos
                /\ unexpected' = (unexpected \/ r.unx)
                /\ pc' = "arg"
                /\ err' = err
           ELSE Fail(r) /\ color' = color
    /\ UNCHANGED <<entry, feature, input, color_revert, output, revert, template,
                   get_more, contents, out>>

\* Behavior::parse: the sigils and the comma after them.
ParseBehavior ==
    /\ IF HasArg(entry) THEN pc = "arg" /\ entry.kind # "color" ELSE pc = "start"
    /\ LET b == Behavior_parse(input, pos, feature) IN
       IF b.ok
       THEN /\ output' = b.v.output
            /\ revert' = b.v.revert
            /\ pos' = b.pos
            /\ pc' = "behavior"
            /\ UNCHANGED <<err, unexpected>>
       ELSE Fail(b) /\ UNCHANGED <<output, revert>>
    /\ UNCHANGED <<entry, feature, input, color, color_revert, template, get_more,
                   contents, out>>

\* SgrColor::parse: the output sigil and the comma after it.
ParseOutput ==
    /\ pc = "arg"
    /\ entry.kind = "color"
    /\ LET o == SgrColor_output(input, pos, feature) IN
       IF o.ok
       THEN /\ output' = o.v
            /\ pos' = o.pos
            /\ pc' = "behavior"
            /\ UNCHANGED <<err, unexpected>>
       ELSE Fail(o) /\ UNCHANGED output
    /\ UNCHANGED <<entry, feature, input, color, color_revert, revert, template,
                   get_more, contents, out>>

\* SgrBase::parse and SgrColor::parse: the template literal, or the implicit
\* one.
TemplateDecision ==
    /\ pc = "behavior"
    /\ LET t == IF entry.kind = "color" THEN SgrColor_template(input, pos, output)
                ELSE SgrBase_template(input, pos, output)
       IN  /\ template' = t.template
           /\ get_more' = t.get_more
           /\ pos' = t.pos
    /\ pc' = "content"
    /\ UNCHANGED <<entry, feature, input, color, color_revert, output, revert,
                   contents, unexpected, err, out>>

\* One iteration of the loop of SgrBase::parse.
ContentToken ==
    /\ pc = "content"
    /\ entry.kind # "color"
    /\ get_more
    /\ pos <= Len(input)
    /\ contents' = Append(contents, input[pos])
    /\ pos' = pos + 1
    /\ UNCHANGED <<entry, feature, input, pc, color, color_revert, output, revert,
                   template, get_more, unexpected, err, out>>

\* One iteration of the loop of SgrColor::parse, which a `;` that follows the
\* token ends.
ColorContentToken ==
    /\ pc = "content"
    /\ entry.kind = "color"
    /\ get_more
    /\ pos <= Len(input)
    /\ contents' = Append(contents, input[pos])
    /\ pos' = pos + 1
    /\ pc' = IF IsP(input, pos + 1, ";") THEN "revert" ELSE "content"
    /\ UNCHANGED <<entry, feature, input, color, color_revert, output, revert,
                   template, get_more, unexpected, err, out>>

\* SgrColor::parse: the revert clause.
ParseRevert ==
    /\ entry.kind = "color"
    /\ pc = "revert" \/ (pc = "content" /\ ~(get_more /\ pos <= Len(input)))
    /\ LET r == SgrColor_revert(input, pos) IN
       IF r.ok
       THEN /\ color_revert' = r.v
            /\ pos' = r.pos
            /\ unexpected' = (unexpected \/ r.unx)
            /\ pc' = "reverted"
            /\ err' = err
       ELSE Fail(r) /\ color_revert' = color_revert
    /\ UNCHANGED <<entry, feature, input, color, output, revert, template,
                   get_more, contents, out>>

\* syn::parse_macro_input!: the parse is over; a token left in the input or in
\* a group is an error.
EndParse ==
    /\ IF entry.kind = "color" THEN pc = "reverted"
       ELSE pc = "content" /\ ~(get_more /\ pos <= Len(input))
    /\ IF unexpected \/ pos <= Len(input)
       THEN /\ pc' = "error"
            /\ err' = [msg |-> "unexpected token", at |-> pos]
       ELSE /\ pc' = "parsed"
            /\ err' = err
    /\ UNCHANGED <<entry, feature, input, pos, color, color_revert, output, revert,
                   template, get_more, contents, unexpected, out>>

\* SgrData::tokens: the generated call.
Emit ==
    /\ pc = "parsed"
    /\ out' = IF entry.kind = "color"
              THEN SgrColor_tokens(color, color_revert, output, template, contents)
              ELSE SgrData_tokens(entry, color, output, revert, template, contents)
    /\ pc' = IF out'.call = "panic" THEN "panic" ELSE "emit"
    /\ UNCHANGED <<entry, feature, input, pos, color, color_revert, output, revert,
                   template, get_more, contents, unexpected, err>>

Next ==
    \/ ParseArg
    \/ ParseBehavior
    \/ TemplateDecision
    \/ ContentToken
    \/ EndParse
    \/ Emit

Spec == Init /\ [][Next]_vars

----------------------------------------------------------------------------
(* Properties of the named and the indexed entry points, under Spec.  What a *)
(* property expects is written from the tokens of the invocation.            *)

\* Where Behavior::parse starts: after the colour argument and its `;`.
SigilStart == IF HasArg(entry) THEN 3 ELSE 1

OutputSigils == {"@", "%", "#"}
RevertSigils == {"!", "*"}
IsSigil(p, sigils) == HasTok(input, p) /\ input[p].k = "p" /\ input[p].v \in sigils

HasOutputSigil == IsSigil(SigilStart, OutputSigils)
\* Where a revert sigil can stand, and whether one stands there.
RevertAt == IF HasOutputSigil THEN SigilStart + 1 ELSE SigilStart
HasRevertSigil == IsSigil(RevertAt, RevertSigils)
\* The first token after the sigils, and after the comma that may follow them.
AfterSigils == IF HasRevertSigil THEN RevertAt + 1 ELSE RevertAt
AfterComma ==
    IF (HasOutputSigil \/ HasRevertSigil) /\ IsP(input, AfterSigils, ",")
    THEN AfterSigils + 1 ELSE AfterSigils

OutputOfSigil ==
    IF ~HasOutputSigil THEN "Concat"
    ELSE CASE input[SigilStart].v = "@" -> "String"
           [] input[SigilStart].v = "%" -> "Format"
           [] input[SigilStart].v = "#" -> "ConstFormat"
RevertOfSigil ==
    IF ~HasRevertSigil THEN "One"
    ELSE IF input[RevertAt].v = "!" THEN "None" ELSE "All"

\* The parameters the entry point opens and closes with.
OpeningParams ==
    IF entry.kind = "fmt" THEN Dec(entry.start)
    ELSE <<"4", "8", ";", "5", ";">> \o Dec(input[1].v)
ClosingParams == IF entry.kind = "fmt" THEN Dec(entry.end) ELSE <<"4", "9">>
ClosingText ==
    CASE RevertOfSigil = "One" -> <<ESC, "[">> \o ClosingParams \o <<"m">>
      [] RevertOfSigil = "All" -> <<ESC, "[", "m">>
      [] RevertOfSigil = "None" -> <<>>

\* The parse of the invocation is over: parse_macro_input! has its value, or
\* found tokens the parse left.
ParseOver ==
    pc \in {"parsed", "emit"} \/ (pc = "error" /\ err.msg = "unexpected token")

\* Behavior::parse was reached: the colour argument, if any, was parsed.
BehaviorReached == pc \notin {"start", "arg"} /\ pos >= SigilStart

EndsWith(text, tail) ==
    Len(tail) <= Len(text) /\ SubSeq(text, Len(text) - Len(tail) + 1, Len(text)) = tail

Without(inp, k) == SubSeq(inp, 1, k - 1) \o SubSeq(inp, k + 1, Len(inp))

\* C1: the closing text of the generated call is ESC[m under revert mode All
\* and empty under revert mode None, whatever the opening and the closing
\* parameters of the entry point are; only under One is it made of the entry
\* point's closing parameters.  In a format mode it ends the template literal.
C1_RevertClosing ==
    pc = "emit" =>
        /\ revert \in {"All", "None", "One"}
        /\ revert = "All" => out.end = <<ESC, "[", "m">>
        /\ revert = "None" => out.end = <<>>
        /\ revert = "One" => out.end = <<ESC, "[">> \o ClosingParams \o <<"m">>
        /\ out.call # "concat!" => EndsWith(out.lit, out.end)

C1_Witness ==
    /\ pc = "emit"
    /\ entry = color_256_bg
    /\ IsP(input, SigilStart, "*")
    /\ revert = "All"
    /\ out.end = <<ESC, "[", "m">>

\* C2: a named entry point registered with (start, end), invoked without sigils
\* on one string literal T, gives the text ESC[<start>m T ESC[<end>m: for green
\* ESC[32m T ESC[39m, for sgr_bold ESC[1m T ESC[22m.
C2_NamedEntry ==
    (pc = "emit" /\ entry.kind = "fmt" /\ Len(input) = 1 /\ input[1].k = "str") =>
        /\ Render(out) = Text(<<ESC, "[">> \o Dec(entry.start) \o <<"m">> \o input[1].v
                                \o <<ESC, "[">> \o Dec(entry.end) \o <<"m">>)
        /\ entry = green =>
              Render(out).text = <<ESC, "[", "3", "2", "m">> \o input[1].v
                                    \o <<ESC, "[", "3", "9", "m">>
        /\ entry = sgr_bold =>
              Render(out).text = <<ESC, "[", "1", "m">> \o input[1].v
                                    \o <<ESC, "[", "2", "2", "m">>

C2_Witness ==
    /\ pc = "emit"
    /\ entry = green
    /\ input = <<S(T)>>
    /\ Render(out).ok

\* C3: Behavior::parse takes at most one output sigil and then at most one
\* revert sigil: @ is String, % is Format, # is ConstFormat, none is Concat;
\* ! is None, * is All, none is One; it consumes these and at most one comma.
\* An output sigil after a revert sigil is not taken as a sigil: the output mode
\* is Concat and the token is the first token of the contents.
C3_SigilOrder ==
    /\ pc = "behavior" =>
        /\ output = OutputOfSigil
        /\ revert = RevertOfSigil
        /\ pos \in {AfterSigils, AfterSigils + 1}
        /\ pos = AfterSigils + 1 => IsP(input, AfterSigils, ",")
    /\ (ParseOver /\ IsSigil(SigilStart, RevertSigils)
            /\ IsSigil(SigilStart + 1, OutputSigils)) =>
        /\ output = "Concat"
        /\ revert = RevertOfSigil
        /\ contents # <<>>
        /\ contents[1] = input[SigilStart + 1]

C3_Witness ==
    /\ pc = "emit"
    /\ IsP(input, SigilStart, "!")
    /\ IsP(input, SigilStart + 1, "@")
    /\ output = "Concat"
    /\ revert = "None"
    /\ contents[1] = P("@")

\* The behavior, the template and the contents parsed are those of the
\* invocation without the comma after its sigils, when a sigil is present and a
\* revert sigil was parsed or the token after the comma is no revert sigil; if
\* strict, the token after the comma is no comma either.
CommaIsOptional(strict) ==
    (/\ ParseOver
     /\ HasOutputSigil \/ HasRevertSigil
     /\ IsP(input, AfterSigils, ",")
     /\ HasRevertSigil \/ ~IsSigil(AfterSigils + 1, RevertSigils)
     /\ strict => ~IsP(input, AfterSigils + 1, ",")) =>
        LET bare == SgrBase_parse(Without(input, AfterSigils), SigilStart, feature) IN
        /\ bare.ok
        /\ bare.v.behavior = [output |-> output, revert |-> revert]
        /\ bare.v.template = template
        /\ bare.v.contents = contents

\* Without a sigil a leading comma is not consumed; a comma right after an
\* output sigil ends the sigils, and a ! or * after it is content.
CommaEndsSigils ==
    /\ (pc = "behavior" /\ ~HasOutputSigil /\ ~HasRevertSigil
            /\ IsP(input, SigilStart, ",")) => pos = SigilStart
    /\ (ParseOver /\ ~HasOutputSigil /\ ~HasRevertSigil
            /\ IsP(input, SigilStart, ",")) =>
        contents # <<>> /\ contents[1] = P(",")
    /\ (ParseOver /\ HasOutputSigil /\ IsP(input, SigilStart + 1, ",")
            /\ IsSigil(SigilStart + 2, RevertSigils)) =>
        /\ revert = "One"
        /\ contents # <<>>
        /\ contents[1] = input[SigilStart + 2]

\* C4 (as amended): one comma after the sigils is accepted and not required:
\* with a sigil present, and a revert sigil parsed or no ! or * after the comma,
\* and no second comma after the comma, the behavior, the template and the
\* contents are the ones parsed without the comma.  Without a sigil a leading
\* comma is not consumed; a comma after an output sigil ends the sigils.
C4_OptionalComma == CommaIsOptional(TRUE) /\ CommaEndsSigils

C4_Witness ==
    /\ pc = "emit"
    /\ input = <<P("@"), P("*"), P(","), Id("x")>>
    /\ output = "String"
    /\ revert = "All"
    /\ contents = <<Id("x")>>

\* C4 as stated: the same, whatever token follows the comma other than ! or *.
C4_AsStated == CommaIsOptional(FALSE) /\ CommaEndsSigils

\* C5: the # sigil without the "const" feature fails the parse with an error at
\* the sigil that names the feature; with the feature it gives ConstFormat; and
\* Behavior::parse fails on nothing else.
C5_ConstSigil ==
    BehaviorReached =>
        /\ (~feature /\ IsP(input, SigilStart, "#")) =>
              /\ pc = "error"
              /\ err = [msg |-> "mode sigil requires the \"const\" feature",
                        at |-> SigilStart]
        /\ (feature /\ IsP(input, SigilStart, "#")) =>
              /\ output = "ConstFormat"
              /\ pc = "error" => err.msg = "unexpected token"
        /\ (pc = "error" /\ err.msg # "unexpected token") =>
              ~feature /\ IsP(input, SigilStart, "#")
        /\ pc # "panic"

C5_Witness ==
    /\ pc = "error"
    /\ ~feature
    /\ input = <<P("#"), P("*"), S(T)>>
    /\ err.at = 1
    /\ output = Unset

\* The invocation is its sigils, at most one comma and one string literal.
OneText == AfterComma = Len(input) /\ IsKind(input, AfterComma, "str")

\* C6: for one entry point, one revert mode and one text without placeholders,
\* the four output modes give the same text, ESC[<opening>m, the text and the
\* closing text; the mode decides only the macro called.
C6_SameBytes ==
    (pc = "emit" /\ OneText) =>
        /\ Render(out) = Text(<<ESC, "[">> \o OpeningParams \o <<"m">>
                                \o input[AfterComma].v \o ClosingText)
        /\ out.call = CASE OutputOfSigil = "Concat" -> "concat!"
                        [] OutputOfSigil = "ConstFormat" -> "formatcp!"
                        [] OutputOfSigil = "Format" -> "format_args!"
                        [] OutputOfSigil = "String" -> "format!"

C6_Witness ==
    /\ pc = "emit"
    /\ entry = color_256_bg
    /\ SubSeq(input, 3, Len(input)) = <<P("#"), P("!"), S(T)>>
    /\ out.call = "formatcp!"
    /\ Render(out) = Text(<<ESC, "[", "4", "8", ";", "5", ";", "1", "7", "3", "m", "T">>)

----------------------------------------------------------------------------
(* color!: the unified colour macro, expanded by SgrColor *)

color_macro == Macro("color", "color", 0, 0, FALSE)

green_lit == S(<<"g","r","e","e","n">>)
red_lit == S(<<"r","e","d">>)
bright_yellow_lit == S(<<"b","r","i","g","h","t"," ","y","e","l","l","o","w">>)

\* The tokens a colour pair is drawn from: a named, a bright, an indexed and
\* an RGB colour (0xFF7F00) and the three marks of the pair grammar.
PairToks ==
    {P("!"), P("*"), P("in"), green_lit, bright_yellow_lit, I(73), I(16744192)}

\* The tokens the pairs of an invocation with a revert clause are drawn from.
SetToks == {P("!"), P("*"), P("in"), green_lit}
RevertToks == {P("!"), P("*"), P("in"), red_lit}

ColorBodyToks == {P("@"), P(","), S(T), Id("x")}

hex_f70_lit == S(<<"#", "F", "7", "0">>)
hex_ff7f00_lit == S(<<"0", "x", "f", "f", "7", "f", "0", "0">>)

\* One colour specification of each form, with the integers at the ends of
\* the ranges of Indexed and of Rgb.
ColorSpecs ==
    {I(0), I(255), I(256), I(16777215), I(16777216), green_lit, bright_yellow_lit,
     hex_f70_lit, hex_ff7f00_lit, G(<<I(255), P(","), I(127), P(","), I(0)>>)}

\* Colours whose value is out of domain: an integer above 0xFFFFFF, a channel
\* above 255, a float channel above 1.0 and one below 0.0, last or first in
\* the tuple.
OutOfDomain ==
    {I(16777216),
     G(<<I(0), P(","), I(0), P(","), I(256)>>),
     G(<<I(0), P(","), I(0), P(","), F(1500)>>),
     G(<<I(256), P(","), I(0), P(","), I(0)>>),
     G(<<F(0 - 500), P(","), I(0), P(","), I(0)>>)}

\* Strings that are neither a colour name nor a hex colour: a misspelt name,
\* a digit that is not hex, and more digits than a u32 holds.
BadStrings ==
    {S(<<"g", "r", "e", "n">>), S(<<"#", "G", "G", "G">>),
     S(<<"#", "1", "0", "0", "0", "0", "0", "0", "0", "0">>)}

\* What stands between the `;` after the pair and the `;` before the revert
\* clause: nothing, a sigil, a template with and without a comma, contents.
ContentHeads ==
    {<<>>, <<P("@")>>, <<P("@"), S(T)>>, <<P("@"), S(T), P(",")>>,
     <<S(T), P(","), S(T)>>, <<P("@"), S(T), P(","), Id("x")>>}

InitColor ==
    /\ feature = FALSE
    /\ entry = color_macro
    \* color!(<pair>; <body>) and color!(<pair>; "T"; <revert pair>)
    /\ \/ \E n \in 0..MaxPair, m \in 0..MaxBody :
            \E s \in Streams(PairToks, n), b \in Streams(ColorBodyToks, m) :
                input = s \o <<P(";")>> \o b
       \/ \E n \in 0..MaxPair, m \in 0..MaxPair :
            \E s \in Streams(SetToks, n), r \in Streams(RevertToks, m) :
                input = s \o <<P(";"), S(T), P(";")>> \o r
       \/ \E c \in ColorSpecs, side \in {<<>>, <<P("in")>>} :
            input = side \o <<c, P(";"), S(T)>>
       \/ \E head \in ContentHeads, r \in {<<>>, <<red_lit>>, <<P("!")>>} :
            input = <<green_lit, P(";")>> \o head \o <<P(";")>> \o r
       \/ \E c \in OutOfDomain \cup BadStrings :
            \E pair \in {<<c>>, <<P("in"), c>>, <<c, P("in"), green_lit>>} :
                input = pair \o <<P(";"), S(T)>>
    /\ InitRest

NextColor ==
    \/ ParseArg
    \/ ParseOutput
    \/ TemplateDecision
    \/ ColorContentToken
    \/ ParseRevert
    \/ EndParse
    \/ Emit

SpecColor == InitColor /\ [][NextColor]_vars

----------------------------------------------------------------------------
(* Properties of color!, under SpecColor *)

\* The parameter text of the colour c on the foreground or, if bg, on the
\* background.
ColorText(c, bg) ==
    CASE c.t = "Basic" ->
            Dec(c.color + (IF c.bright THEN 60 ELSE 0) + (IF bg THEN 10 ELSE 0))
      [] c.t = "Indexed" ->
            (IF bg THEN <<"4", "8">> ELSE <<"3", "8">>) \o <<";", "5", ";">> \o Dec(c.idx)
      [] c.t = "Rgb" ->
            (IF bg THEN <<"4", "8">> ELSE <<"3", "8">>) \o <<";", "2", ";">>
                \o Dec(c.rgb.r) \o <<";">> \o Dec(c.rgb.g) \o <<";">> \o Dec(c.rgb.b)

\* The control sequence of the parameters of the two sides, each <<>> or
\* <<text>>: the foreground first, a `;` between them, nothing if both are
\* absent.
SidesText(fg, bg) ==
    IF fg = <<>> /\ bg = <<>> THEN <<>>
    ELSE <<ESC, "[">> \o (IF fg # <<>> THEN fg[1] ELSE <<>>)
            \o (IF fg # <<>> /\ bg # <<>> THEN <<";">> ELSE <<>>)
            \o (IF bg # <<>> THEN bg[1] ELSE <<>>) \o <<"m">>

StartsWith(inp, pre) == Len(inp) >= Len(pre) /\ SubSeq(inp, 1, Len(pre)) = pre

\* A side of a pair is absent or set to a colour.
IsColorSide(side) == side = <<>> \/ IsSet(side)

\* The invocation has no revert clause: its only `;` is the one after the pair.
NoRevertClause == Cardinality({i \in 1..Len(input) : IsP(input, i, ";")}) = 1

\* C8: the opening parameters of a pair of colours are the parameter of the
\* foreground, if present, then the parameter of the background, if present,
\* with one `;` between them; a Basic colour gives its code, plus 60 if bright,
\* plus 10 on the background, an Indexed colour 38;5;N or 48;5;N, an Rgb colour
\* 38;2;R;G;B or 48;2;R;G;B.
C8_ColorParams ==
    /\ (pc = "emit" /\ IsColorSide(color.fg) /\ IsColorSide(color.bg)) =>
        out.fmt = SidesText(
            IF IsSet(color.fg) THEN <<ColorText(color.fg[1].c, FALSE)>> ELSE <<>>,
            IF IsSet(color.bg) THEN <<ColorText(color.bg[1].c, TRUE)>> ELSE <<>>)
    /\ (pc = "emit" /\ StartsWith(input, <<bright_yellow_lit, P("in"), green_lit, P(";")>>)) =>
        out.fmt = <<ESC, "[", "9", "3", ";", "4", "2", "m">>
    /\ (pc = "emit" /\ StartsWith(input, <<P("in"), I(73), P(";")>>)) =>
        out.fmt = <<ESC, "[", "4", "8", ";", "5", ";", "7", "3", "m">>

C8_Witness ==
    /\ pc = "emit"
    /\ StartsWith(input, <<I(16744192), P("in"), I(73), P(";")>>)
    /\ out.fmt = <<ESC, "[", "3", "8", ";", "2", ";", "2", "5", "5", ";", "1", "2", "7",
                   ";", "0", ";", "4", "8", ";", "5", ";", "7", "3", "m">>

\* C9: without a revert clause the closing parameters are 39 if the foreground
\* was set to a colour and 49 if the background was, in this order; a side that
\* was not set to a colour gives none, and with none the closing text is empty.
C9_DefaultRevert ==
    (pc = "emit" /\ NoRevertClause) =>
        out.end = SidesText(IF IsSet(color.fg) THEN <<<<"3", "9">>>> ELSE <<>>,
                            IF IsSet(color.bg) THEN <<<<"4", "9">>>> ELSE <<>>)

C9_Witness ==
    /\ pc = "emit"
    /\ NoRevertClause
    /\ StartsWith(input, <<green_lit, P("in"), P("!"), P(";")>>)
    /\ out.end = <<ESC, "[", "3", "9", "m">>

\* A side of the revert clause that names no colour: absent, or a Reset.
NotNamed(side) == side = <<>> \/ side[1].t = "Reset"

\* The closing parameter of a side: the colour the revert clause names for it,
\* else the default reset if the side was set to a colour, else none.
RevertSideText(set, rev, bg) ==
    IF IsSet(rev) THEN <<ColorText(rev[1].c, bg)>>
    ELSE IF IsSet(set) THEN <<IF bg THEN <<"4", "9">> ELSE <<"3", "9">>>>
    ELSE <<>>

\* C10: with a revert clause, a side the clause names a colour for closes with
\* the parameter of that colour, whatever the side was set to, and a side that
\* was set to a colour and that the clause does not name closes with its
\* default reset.
C10_RevertClause ==
    (/\ pc = "emit"
     /\ ~NoRevertClause
     /\ color_revert.t = "Pair"
     /\ IsSet(color_revert.fg) \/ IsSet(color_revert.bg)
     /\ IsSet(color_revert.fg) \/ NotNamed(color_revert.fg)
     /\ IsSet(color_revert.bg) \/ NotNamed(color_revert.bg)) =>
        out.end = SidesText(RevertSideText(color.fg, color_revert.fg, FALSE),
                            RevertSideText(color.bg, color_revert.bg, TRUE))

\* The positions of the `;` tokens of the invocation, and the tokens of its
\* revert clause: those after the second `;`.
Semis == {i \in 1..Len(input) : IsP(input, i, ";")}

HasRevertClause == Cardinality(Semis) = 2

SecondSemi == CHOOSE i \in Semis : \A j \in Semis : j <= i

RevertClause == SubSeq(input, SecondSemi + 1, Len(input))

\* The revert clauses with a `!` on one side of an `in`.
SuppressedSides ==
    {<<P("!"), P("in"), red_lit>>, <<red_lit, P("in"), P("!")>>,
     <<P("in"), P("!")>>, <<P("!"), P("in"), P("!")>>}

\* The closing parameter of the side written as the tokens side in a revert
\* clause, for a side that was set: none after `!`, the colour after "red",
\* the default reset of the side when it was set to a colour and not named.
SideClosing(side, set, bg) ==
    IF side = <<P("!")>> THEN <<>>
    ELSE IF side = <<red_lit>> THEN <<IF bg THEN <<"4", "1">> ELSE <<"3", "1">>>>
    ELSE IF IsSet(set) THEN <<IF bg THEN <<"4", "9">> ELSE <<"3", "9">>>>
    ELSE <<>>

ForegroundSide(clause) == IF clause[1] = P("in") THEN <<>> ELSE <<clause[1]>>

BackgroundSide(clause) == <<clause[Len(clause)]>>

\* C11: a revert clause with `!` on one side of its `in` parses, and closes
\* with the parameter of the other side alone: no error is raised in the
\* clause, and the closing text holds what the other side specifies.
C11_SuppressSide ==
    (HasRevertClause /\ RevertClause \in SuppressedSides) =>
        /\ ~(pc = "error" /\ err.at > SecondSemi)
        /\ pc = "emit" =>
            out.end = SidesText(
                SideClosing(ForegroundSide(RevertClause), color.fg, FALSE),
                SideClosing(BackgroundSide(RevertClause), color.bg, TRUE))

ResetBothText == <<ESC, "[", "3", "9", ";", "4", "9", "m">>

\* C12: a `*` that is the whole colour pair opens with the parameters 39;49,
\* and a `*` that is the whole revert clause closes with the parameters 39;49
\* whichever sides the pair set.
C12_ResetAll ==
    /\ (pc = "emit" /\ StartsWith(input, <<P("*"), P(";")>>)) =>
            out.fmt = ResetBothText
    /\ (pc = "emit" /\ HasRevertClause /\ RevertClause = <<P("*")>>) =>
            out.end = ResetBothText

\* The background alone is set, the revert clause is `*`, and the closing
\* text resets both sides.
C12_Witness ==
    /\ pc = "emit"
    /\ input = <<P("in"), green_lit, P(";"), S(T), P(";"), P("*")>>
    /\ out.fmt = <<ESC, "[", "4", "2", "m">>
    /\ out.end = ResetBothText

\* The pair of the invocation has no foreground colour change and no `in`
\* clause, and is not `*`: it is empty, or a lone integer that is no colour.
NoSidePresent ==
    \/ IsP(input, 1, ";")
    \/ Len(input) >= 2 /\ input[1] = I(16777216) /\ IsP(input, 2, ";")

\* The stages that follow a successful parse of the colour pair of color!.
PairParsed == {"arg", "behavior", "content", "revert", "reverted", "parsed", "emit"}

\* C13: a colour pair with neither a foreground colour change nor an `in`
\* clause fails with "empty color" at the first token of the pair; that error
\* is never raised elsewhere nor for the pair `*`; and a colour pair that was
\* parsed has at least one side present.
C13_EmptyColor ==
    /\ (pc # "start" /\ NoSidePresent) =>
            pc = "error" /\ err = [msg |-> "empty color", at |-> 1]
    /\ (pc = "error" /\ err.msg = "empty color") =>
            err.at = 1 /\ ~IsP(input, 1, "*")
    /\ pc \in PairParsed => color.fg # <<>> \/ color.bg # <<>>

\* The pair is the integer 0x1000000, which is no colour: the parse fails
\* with "empty color" at that token.
C13_Witness ==
    /\ pc = "error"
    /\ input = <<I(16777216), P(";"), S(T)>>
    /\ err = [msg |-> "empty color", at |-> 1]

\* The literal written for the foreground, and the one written after `in`
\* for the background, of the colour pair of the invocation.
IsColorLit(inp, p) == IsKind(inp, p, "int") \/ IsKind(inp, p, "str")

ForegroundLit == IF IsColorLit(input, 1) THEN <<input[1]>> ELSE <<>>

BackgroundLit ==
    IF IsP(input, 1, "in") /\ IsColorLit(input, 2) THEN <<input[2]>>
    ELSE IF ~IsP(input, 1, "*") /\ IsP(input, 2, "in") /\ IsColorLit(input, 3)
    THEN <<input[3]>>
    ELSE <<>>

\* The side of a parsed pair written as the literal lit is set to an Indexed
\* colour of that index for an integer of 0..255, to the Rgb colour of that
\* value for an integer of 256..0xFFFFFF, and to a Basic or Rgb colour for a
\* string.
ResolvedAs(side, lit) ==
    /\ (lit.k = "int" /\ lit.v >= 0 /\ lit.v <= 255) =>
            side = <<Set(Indexed(lit.v))>>
    /\ (lit.k = "int" /\ lit.v >= 256 /\ lit.v <= 16777215) =>
            /\ IsSet(side)
            /\ side[1].c.t = "Rgb"
            /\ side[1].c.rgb.r * 65536 + side[1].c.rgb.g * 256 + side[1].c.rgb.b = lit.v
    /\ lit.k = "str" => IsSet(side) /\ side[1].c.t \in {"Basic", "Rgb"}

\* C14: in a parsed colour pair, an integer literal of 0..255 is an Indexed
\* colour and never an Rgb one, an integer literal of 256..0xFFFFFF is an Rgb
\* colour, and a string literal is a Basic or an Rgb colour, never an Indexed
\* one, on the foreground and on the background.
C14_Resolution ==
    pc \in PairParsed =>
        /\ ForegroundLit # <<>> => ResolvedAs(color.fg, ForegroundLit[1])
        /\ BackgroundLit # <<>> => ResolvedAs(color.bg, BackgroundLit[1])

\* 256, the first integer that is no Indexed colour, is an Rgb colour.
C14_Witness ==
    /\ pc = "emit"
    /\ input = <<I(256), P(";"), S(T)>>
    /\ color.fg = <<Set(RgbColor([a |-> 0, r |-> 0, g |-> 1, b |-> 0]))>>
    /\ out.fmt = <<ESC, "[", "3", "8", ";", "2", ";", "0", ";", "1", ";", "0", "m">>

----------------------------------------------------------------------------
(* color_rgb! and color_rgb_bg! *)

color_rgb == Macro("color_rgb", "rgb", 0, 0, FALSE)
color_rgb_bg == Macro("color_rgb_bg", "rgb", 0, 0, TRUE)

\* The values of a channel the four forms of a colour are written for.
ChanVals == {0, 10, 127, 255}

\* The two hex digits of a byte, drawn from digits.
Hex2(n, digits) == <<digits[(n \div 16) + 1], digits[(n % 16) + 1]>>

Hex6(r, g, b, digits) == Hex2(r, digits) \o Hex2(g, digits) \o Hex2(b, digits)

Tuple(r, g, b) == G(<<r, P(","), g, P(","), b>>)

\* The forms of the colour of bytes r, g, b: the integer, the strings with
\* each prefix and each case of digits, and the tuple.
RgbForms(r, g, b) ==
    {I(r * 65536 + g * 256 + b), Tuple(I(r), I(g), I(b))}
        \cup {S(pre \o Hex6(r, g, b, digits)) :
                pre \in {<<"#">>, <<"0", "x">>}, digits \in {HexLower, HexUpper}}

\* The digits three-digit colours are written with.
ShortDigits == {"0", "7", "a", "F"}

ShortForm(r, g, b) == S(<<"#", r, g, b>>)

LongForm(r, g, b) == S(<<"#", r, r, g, g, b, b>>)

\* Colours around the 24-bit limit: integers, and hex strings of six, seven
\* and eight digits.
LimitForms ==
    {I(16777215), I(16777216), I(2147483647),
     S(<<"#", "F", "F", "F", "F", "F", "F">>),
     S(<<"#", "1", "0", "0", "0", "0", "0", "0">>),
     S(<<"#", "0", "1", "F", "F", "7", "F", "0", "0">>),
     S(<<"0", "x", "F", "F", "0", "0", "0", "0", "0", "0">>)}

\* The channels of a tuple: integers in and out of a byte, and floats in
\* thousandths, in and out of [0.0, 1.0].
ChanToks == {I(0), I(1), I(127), I(255), I(256),
             F(0), F(250), F(500), F(1000), F(1500), F(0 - 500)}

\* The bodies after the colour and its `;`.
RgbBodies == {<<S(T)>>, <<Id("x")>>, <<P("!"), S(T)>>}

InitRgb ==
    /\ feature = FALSE
    /\ entry \in {color_rgb, color_rgb_bg}
    /\ \E body \in RgbBodies :
        \/ \E r \in ChanVals, g \in ChanVals, b \in ChanVals :
              \E c \in RgbForms(r, g, b) : input = <<c, P(";")>> \o body
        \/ \E r \in ShortDigits, g \in ShortDigits, b \in ShortDigits :
              \E c \in {ShortForm(r, g, b), LongForm(r, g, b)} :
                  input = <<c, P(";")>> \o body
        \/ \E c \in LimitForms : input = <<c, P(";")>> \o body
        \/ \E r \in ChanToks, g \in ChanToks, b \in ChanToks :
              input = <<Tuple(r, g, b), P(";")>> \o body
    /\ InitRest

SpecRgb == InitRgb /\ [][Next]_vars

----------------------------------------------------------------------------
(* Properties of color_rgb! and color_rgb_bg!, under SpecRgb *)

\* The opening sequence of the colour of bytes r, g, b on the foreground or,
\* if bg, on the background.
RgbOpening(bg, r, g, b) ==
    <<ESC, "[">> \o (IF bg THEN <<"4", "8">> ELSE <<"3", "8">>) \o <<";", "2", ";">>
        \o Dec(r) \o <<";">> \o Dec(g) \o <<";">> \o Dec(b) \o <<"m">>

\* The expansion stopped on an error or a panic.
Stopped == pc \in {"error", "panic"}

\* C15: the integer N, the strings "#" + hex6(N) and "0x" + hex6(N), and the
\* tuple (R, G, B) of the bytes of N are all parsed to the colour of bytes
\* R, G, B with no top byte, and all open with 38;2;R;G;B, or 48;2;R;G;B on
\* the background.
C15_FourForms ==
    \A r \in ChanVals, g \in ChanVals, b \in ChanVals :
        (pc # "start" /\ input[1] \in RgbForms(r, g, b)) =>
            /\ ~Stopped
            /\ color = [a |-> 0, r |-> r, g |-> g, b |-> b]
            /\ pc = "emit" => out.fmt = RgbOpening(entry.bg, r, g, b)

\* "0x0a7fff" on the background opens with 48;2;10;127;255.
C15_Witness ==
    /\ pc = "emit"
    /\ entry = color_rgb_bg
    /\ input[1] = S(<<"0", "x", "0", "a", "7", "f", "f", "f">>)
    /\ out.fmt = <<ESC, "[", "4", "8", ";", "2", ";", "1", "0", ";", "1", "2", "7", ";",
                   "2", "5", "5", "m">>

\* The byte written as the hex digit d twice.
Doubled(d) == 17 * HexValue(d)

\* C16: for hex digits r, g, b the strings "#rgb" and "#rrggbb" are parsed to
\* one colour, of bytes rr, gg, bb, and give the same opening sequence.
C16_ShortHex ==
    \A r \in ShortDigits, g \in ShortDigits, b \in ShortDigits :
        (pc # "start" /\ input[1] \in {ShortForm(r, g, b), LongForm(r, g, b)}) =>
            /\ ~Stopped
            /\ color = [a |-> 0, r |-> Doubled(r), g |-> Doubled(g), b |-> Doubled(b)]
            /\ pc = "emit" =>
                out.fmt = RgbOpening(entry.bg, Doubled(r), Doubled(g), Doubled(b))

\* "#7aF" opens with 38;2;119;170;255, as "#77aaFF" does.
C16_Witness ==
    /\ pc = "emit"
    /\ entry = color_rgb
    /\ input[1] = S(<<"#", "7", "a", "F">>)
    /\ out.fmt = <<ESC, "[", "3", "8", ";", "2", ";", "1", "1", "9", ";", "1", "7", "0", ";",
                   "2", "5", "5", "m">>

\* The colours of LimitForms whose value is above 0x00FFFFFF.
AboveLimit ==
    {I(16777216), I(2147483647),
     S(<<"#", "1", "0", "0", "0", "0", "0", "0">>),
     S(<<"#", "0", "1", "F", "F", "7", "F", "0", "0">>),
     S(<<"0", "x", "F", "F", "0", "0", "0", "0", "0", "0">>)}

\* C17: a colour whose value is above 0x00FFFFFF, written as an integer or as
\* a hex string, is rejected with an error, and no colour that was accepted
\* has a top byte other than zero.
C17_TopByte ==
    /\ (pc # "start" /\ input[1] \in AboveLimit) => pc = "error"
    /\ (pc # "start" /\ ~Stopped) => color.a = 0

\* The channels of the tuple the invocation starts with.
IsTuple == IsKind(input, 1, "grp")

Channels == <<input[1].v[1], input[1].v[3], input[1].v[5]>>

\* The error of a float channel in thousandths, "" for none.
FloatError(c) ==
    IF c.v < 0 THEN "RGB channel cannot be negative"
    ELSE IF c.v > 1000 THEN "RGB channel cannot exceed 1.0"
    ELSE ""

ChannelFails(c) ==
    IF c.k = "int" THEN c.v < 0 \/ c.v > 255 ELSE FloatError(c) # ""

\* The byte of a channel that does not fail: the integer itself, and
\* trunc(f * 255) of the float, 0 for 0.0, 63 for 0.25, 127 for 0.5 and 255
\* for 1.0.
ChannelByte(c) ==
    IF c.k = "int" THEN c.v
    ELSE CASE c.v = 0 -> 0
           [] c.v = 250 -> 63
           [] c.v = 500 -> 127
           [] c.v = 1000 -> 255

FirstFailing == CHOOSE i \in 1..3 :
    ChannelFails(Channels[i]) /\ \A j \in 1..(i - 1) : ~ChannelFails(Channels[j])

\* C18: a tuple whose channels are integers of 0..255 and floats of
\* [0.0, 1.0], mixed freely, is the colour of the bytes n and trunc(f * 255);
\* a tuple with another integer or float fails, and when the first such
\* channel is a float the error is "RGB channel cannot be negative" below 0
\* and "RGB channel cannot exceed 1.0" above 1.0.
C18_Channels ==
    (pc # "start" /\ IsTuple) =>
        IF \A i \in 1..3 : ~ChannelFails(Channels[i])
        THEN /\ ~Stopped
             /\ color = [a |-> 0, r |-> ChannelByte(Channels[1]),
                         g |-> ChannelByte(Channels[2]), b |-> ChannelByte(Channels[3])]
             /\ pc = "emit" => out.fmt = RgbOpening(entry.bg, color.r, color.g, color.b)
        ELSE /\ pc = "error"
             /\ Channels[FirstFailing].k = "float" =>
                    err.msg = FloatError(Channels[FirstFailing])

\* (1, 0.5, 0.25) opens with 38;2;1;127;63: the integer 1 is the byte 1, not
\* the float 1.0.
C18_Witness ==
    /\ pc = "emit"
    /\ entry = color_rgb
    /\ input[1] = Tuple(I(1), F(500), F(250))
    /\ out.fmt = <<ESC, "[", "3", "8", ";", "2", ";", "1", ";", "1", "2", "7", ";",
                   "6", "3", "m">>

----------------------------------------------------------------------------
(* ColorBasic::parse and ColorBasic::code on one literal *)

color_basic == Macro("ColorBasic", "basic", 0, 0, FALSE)
color_basic_bg == Macro("ColorBasic", "basic", 0, 0, TRUE)

to_uppercase_char(c) ==
    IF \E i \in 1..26 : LowerCase[i] = c
    THEN UpperCase[CHOOSE i \in 1..26 : LowerCase[i] = c]
    ELSE c

\* The name in lower case, in upper case, and capitalised.
Cases(name) ==
    {name,
     [i \in 1..Len(name) |-> to_uppercase_char(name[i])],
     [i \in 1..Len(name) |-> IF i = 1 THEN to_uppercase_char(name[i]) ELSE name[i]]}

\* The nine names, in the order of their codes.
Names ==
    << <<"b","l","a","c","k">>, <<"r","e","d">>, <<"g","r","e","e","n">>,
       <<"y","e","l","l","o","w">>, <<"b","l","u","e">>,
       <<"m","a","g","e","n","t","a">>, <<"c","y","a","n">>,
       <<"w","h","i","t","e">>, <<"d","e","f","a","u","l","t">> >>

\* The prefixes of a bright colour: the word and the blanks after it.
BrightPrefixes ==
    {<<"b","r","i","g","h","t"," ">>, <<"B","r","i","g","h","t"," ">>,
     <<"b","r","i","g","h","t">>, <<"b","r","i","g","h","t"," "," ">>}

\* The blanks around the text of a literal.
Pads == {<<>>, <<" ">>}

\* Strings that are no colour name in any reading.
NoNames ==
    {<<>>, <<" ">>, <<"b","r","i","g","h","t">>, <<"g","r","e","n">>,
     <<"r","e","d","s">>, <<"r","e","d"," ","g","r","e","e","n">>,
     <<"r"," ","e","d">>, <<"d","a","r","k"," ","r","e","d">>,
     <<"b","r","i","g","h","t","_","r","e","d">>,
     <<"b","r","i","g","h","t"," ","b","r","i","g","h","t"," ","r","e","d">>,
     <<"#","F","7","0">>, <<"3","1">>}

\* The string of the i-th name written as text, after the prefix pre, between
\* the blanks l and r.
NameString(l, pre, text, r) == l \o pre \o text \o r

InitBasic ==
    /\ feature = FALSE
    /\ entry \in {color_basic, color_basic_bg}
    /\ \/ \E i \in 1..Len(Names), pre \in BrightPrefixes \cup {<<>>}, l \in Pads, r \in Pads :
            \E text \in Cases(Names[i]) : input = <<S(NameString(l, pre, text, r))>>
       \/ \E s \in NoNames : input = <<S(s)>>
    /\ InitRest

\* ColorBasic::parse on the literal.
ParseBasic ==
    /\ pc = "start"
    /\ entry.kind = "basic"
    /\ LET r == ColorBasic_parse(input, pos) IN
       IF r.ok
       THEN /\ color' = r.v
            /\ pos' = r.pos
            /\ pc' = "arg"
            /\ UNCHANGED <<err, unexpected>>
       ELSE Fail(r) /\ color' = color
    /\ UNCHANGED <<entry, feature, input, color_revert, output, revert, template,
                   get_more, contents, out>>

\* ColorBasic::code, printed as ColorAny::params prints it.
CodeBasic ==
    /\ pc = "arg"
    /\ entry.kind = "basic"
    /\ out' = [NoOut EXCEPT !.fmt = Dec(ColorBasic_code(color, entry.bg))]
    /\ pc' = "emit"
    /\ UNCHANGED <<entry, feature, input, pos, color, color_revert, output, revert,
                   template, get_more, contents, unexpected, err>>

NextBasic ==
    \/ ParseBasic
    \/ CodeBasic

SpecBasic == InitBasic /\ [][NextBasic]_vars

----------------------------------------------------------------------------
(* Properties of ColorBasic::parse, under SpecBasic *)

\* The code of the i-th name: 30..37 for black..white, 39 for default.
NameCode(i) == IF i = 9 THEN 39 ELSE 29 + i

\* The literal is the i-th name written as text after pre, between l and r,
\* and is parsed to that colour, bright if pre is a prefix, whose code is the
\* code of the name, plus 60 if bright, plus 10 on the background.
ParsedAsName(i, l, pre, text, r) ==
    (pc # "start" /\ input = <<S(NameString(l, pre, text, r))>>) =>
        /\ pc # "error"
        /\ color = Basic(NameCode(i), pre # <<>>)
        /\ pc = "emit" =>
            out.fmt = Dec(NameCode(i) + (IF pre # <<>> THEN 60 ELSE 0)
                                      + (IF entry.bg THEN 10 ELSE 0))

InvalidColor == pc = "error" /\ err = [msg |-> "invalid color", at |-> 1]

\* C19: a string literal that is one of the nine names, in any case of
\* letters, after an optional "bright" and any blanks that follow it, with
\* any blanks around the whole, is that colour, bright with the prefix, of
\* code 30..37 or 39 for default; a string that is no such text fails with
\* "invalid color" at the literal.
C19_NamedColor ==
    /\ \A i \in 1..Len(Names), pre \in BrightPrefixes \cup {<<>>}, l \in Pads, r \in Pads :
            \A text \in Cases(Names[i]) : ParsedAsName(i, l, pre, text, r)
    /\ (pc # "start" /\ input[1].v \in NoNames) => InvalidColor

\* " bright  RED " on the background is the code 101.
C19_Witness ==
    /\ pc = "emit"
    /\ entry = color_basic_bg
    /\ input = <<S(<<" ", "b","r","i","g","h","t"," "," ", "R","E","D", " ">>)>>
    /\ color = Basic(31, TRUE)
    /\ out.fmt = <<"1", "0", "1">>

\* The strings that are a name in any case of letters, alone or after the
\* prefix "bright " in any case of letters.
ExactNames ==
    {NameString(<<>>, pre, text, <<>>) :
        pre \in {<<>>, <<"b","r","i","g","h","t"," ">>, <<"B","r","i","g","h","t"," ">>},
        text \in UNION {Cases(Names[i]) : i \in 1..Len(Names)}}

\* C19 as stated: the names alone or after "bright " are colours, and every
\* other string fails with an error at the literal.
C19_AsStated ==
    /\ \A i \in 1..Len(Names), pre \in {<<>>, <<"b","r","i","g","h","t"," ">>} :
            \A text \in Cases(Names[i]) : ParsedAsName(i, <<>>, pre, text, <<>>)
    /\ (pc # "start" /\ input[1].v \notin ExactNames) => pc = "error" /\ err.at = 1

----------------------------------------------------------------------------
(* The colour macros of src/lib.rs *)

\* The two def_sgr! tables of colours: name = start, end.
ColorMacros ==
    LET plain == <<"black", "red", "green", "yellow", "blue", "magenta", "cyan", "white">>
        bright == <<"black_bright", "red_bright", "green_bright", "yellow_bright",
                    "blue_bright", "magenta_bright", "cyan_bright", "white_bright">>
        plain_bg == <<"black_bg", "red_bg", "green_bg", "yellow_bg", "blue_bg",
                      "magenta_bg", "cyan_bg", "white_bg">>
        bright_bg == <<"black_bright_bg", "red_bright_bg", "green_bright_bg",
                       "yellow_bright_bg", "blue_bright_bg", "magenta_bright_bg",
                       "cyan_bright_bg", "white_bright_bg">>
    IN  {Macro(plain[i], "fmt", 29 + i, 39, FALSE) : i \in 1..8}
            \cup {Macro(bright[i], "fmt", 89 + i, 99, FALSE) : i \in 1..8}
            \cup {Macro(plain_bg[i], "fmt", 39 + i, 49, TRUE) : i \in 1..8}
            \cup {Macro(bright_bg[i], "fmt", 99 + i, 109, TRUE) : i \in 1..8}

color_256 == Macro("color_256", "c256", 0, 0, FALSE)

\* Every colour macro, on every body of up to MaxBody tokens; the indexed and
\* RGB macros with one colour each.
InitTable ==
    /\ feature = FALSE
    /\ \E n \in 0..MaxBody : \E b \in Streams(BodyToks, n) :
          \/ entry \in ColorMacros /\ input = <<>> \o b
          \/ entry \in {color_256, color_256_bg} /\ input = <<I(173), P(";")>> \o b
          \/ entry \in {color_rgb, color_rgb_bg} /\ input = <<I(16744192), P(";")>> \o b
    /\ InitRest

SpecTable == InitTable /\ [][Next]_vars

\* C20: with the revert mode One, every colour macro closes with the sequence
\* of the default colour: 39 on the foreground, 49 for a macro of the
\* background.
C20_DefaultColor ==
    (pc = "emit" /\ revert = "One") =>
        out.end = <<ESC, "[">> \o (IF entry.bg THEN <<"4", "9">> ELSE <<"3", "9">>) \o <<"m">>

----------------------------------------------------------------------------
(* Nested invocations: sgr_bold!(sgr_italic!(sgr_uline!("T"))) *)

MaxDepth == 3

sgr_italic == Macro("sgr_italic", "fmt", 3, 23, FALSE)
sgr_uline == Macro("sgr_uline", "fmt", 4, 24, FALSE)

StyleMacros == {sgr_bold, sgr_italic, sgr_uline}

\* The tokens of the invocation name!(body).
Call(name, body) == <<Id(name), P("!"), G(body)>>

IsCall(arg) ==
    /\ Len(arg) = 3
    /\ arg[1].k = "id"
    /\ arg[2] = P("!")
    /\ arg[3].k = "grp"
    /\ \E m \in StyleMacros : m.name = arg[1].v

MacroNamed(name) == CHOOSE m \in StyleMacros : m.name = name

\* The generated call for a call that does not compile.
GenError == [call |-> "error", fmt |-> <<>>, end |-> <<>>, lit |-> <<>>, args |-> <<>>]

\* The expansion of e!(body) for a def_sgr! macro e: parse_macro_input!, then
\* tokens().
Expand(e, body, feat) ==
    LET r == SgrBase_parse(body, 1, feat) IN
    IF ~r.ok \/ r.pos <= Len(body) THEN GenError
    ELSE SgrData_tokens(e, <<>>, r.v.behavior.output, r.v.behavior.revert,
                        r.v.template, r.v.contents)

RECURSIVE Evaluate(_, _)
\* What the generated call evaluates to when its arguments may be invocations
\* of the macros of this crate, which concat! expands before it joins them.
Evaluate(o, feat) ==
    IF o.call \in {"panic", "error"} THEN NoText
    ELSE IF o.call # "concat!" THEN Render(o)
    ELSE
        LET args == SplitArgs(o.args)
            vals == [i \in 1..Len(args) |->
                        IF IsLiteralArg(args[i]) THEN Text(ArgText(args[i]))
                        ELSE IF IsCall(args[i])
                        THEN Evaluate(Expand(MacroNamed(args[i][1].v), args[i][3].v, feat),
                                      feat)
                        ELSE NoText]
        IN  IF \A i \in 1..Len(args) : vals[i].ok
            THEN Text(o.fmt \o Flatten([i \in 1..Len(args) |-> vals[i].text]) \o o.end)
            ELSE NoText

\* The revert sigil written before the contents: none, `!` or `*`.
Sigils == {<<>>, <<P("!")>>, <<P("*")>>}

RECURSIVE Nests(_)
\* The bodies of up to n nested invocations around "T", each with a sigil.
Nests(n) ==
    IF n = 0 THEN {s \o <<S(T)>> : s \in Sigils}
    ELSE Nests(n - 1)
            \cup {s \o Call(m.name, b) : s \in Sigils, m \in StyleMacros, b \in Nests(n - 1)}

InitNest ==
    /\ feature = FALSE
    /\ entry \in StyleMacros
    /\ input \in Nests(MaxDepth - 1)
    /\ InitRest

NextNest ==
    \/ ParseBehavior
    \/ TemplateDecision
    \/ ContentToken
    \/ EndParse
    \/ Emit

SpecNest == InitNest /\ [][NextNest]_vars

----------------------------------------------------------------------------
(* Properties of nested invocations, under SpecNest *)

HasSigil(body) == IsP(body, 1, "!") \/ IsP(body, 1, "*")

AfterSigil(body) == IF HasSigil(body) THEN Tail(body) ELSE body

RECURSIVE Layers(_, _)
\* The macros of the invocation e!(body), from the outermost to the innermost,
\* each with the revert sigil of its body ("" for none).
Layers(e, body) ==
    <<[m |-> e, s |-> IF HasSigil(body) THEN body[1].v ELSE ""]>>
        \o (IF IsCall(AfterSigil(body))
            THEN Layers(MacroNamed(AfterSigil(body)[1].v), AfterSigil(body)[3].v)
            ELSE <<>>)

LayerOpening(l) == <<ESC, "[">> \o Dec(l.m.start) \o <<"m">>

LayerClosing(l) ==
    CASE l.s = "" -> <<ESC, "[">> \o Dec(l.m.end) \o <<"m">>
      [] l.s = "!" -> <<>>
      [] l.s = "*" -> <<ESC, "[", "m">>

\* The opening texts from the outermost layer in, the text, and the closing
\* texts from the innermost layer out.
Layered(ls) ==
    Flatten([i \in 1..Len(ls) |-> LayerOpening(ls[i])]) \o T
        \o Flatten([i \in 1..Len(ls) |-> LayerClosing(ls[Len(ls) + 1 - i])])

\* C21: a Concat invocation passes the tokens after its sigil through as its
\* contents, and nested invocations evaluate to the opening sequences from
\* the outermost in, the text, and the closing texts from the innermost out:
\* the closing sequence of each layer by default, nothing for a layer with
\* `!`, ESC[m for a layer with `*`.
C21_Layers ==
    pc = "emit" =>
        /\ out.args = AfterSigil(input)
        /\ Evaluate(out, feature) = Text(Layered(Layers(entry, input)))
        /\ (entry = sgr_bold
              /\ input = <<P("*")>> \o Call("sgr_italic",
                                <<P("!")>> \o Call("sgr_uline", <<P("!"), S(T)>>))) =>
                Evaluate(out, feature).text =
                    <<ESC, "[", "1", "m", ESC, "[", "3", "m", ESC, "[", "4", "m", "T",
                      ESC, "[", "m">>

\* sgr_bold!(sgr_italic!(sgr_uline!("T"))) closes with 24, 23, 22.
C21_Witness ==
    /\ pc = "emit"
    /\ entry = sgr_bold
    /\ input = Call("sgr_italic", Call("sgr_uline", <<S(T)>>))
    /\ Evaluate(out, feature).text =
            <<ESC, "[", "1", "m", ESC, "[", "3", "m", ESC, "[", "4", "m", "T",
              ESC, "[", "2", "4", "m", ESC, "[", "2", "3", "m", ESC, "[", "2", "2", "m">>

----------------------------------------------------------------------------
(* More properties of color!, under SpecColor *)

\* The pair of the invocation has a colour out of domain on its foreground
\* or after `in`.
HasOutOfDomain ==
    \/ Len(input) >= 1 /\ input[1] \in OutOfDomain
    \/ IsP(input, 1, "in") /\ Len(input) >= 2 /\ input[2] \in OutOfDomain

\* C22: a colour pair with a colour whose value is out of domain is never
\* parsed: the expansion stops with an error, also when a valid background
\* follows an out-of-domain foreground.
C22_OutOfDomain == HasOutOfDomain => pc \notin PairParsed

\* The pair of the invocation has a string that is no colour on its
\* foreground or after `in`.
HasBadString ==
    \/ Len(input) >= 1 /\ input[1] \in BadStrings
    \/ IsP(input, 1, "in") /\ Len(input) >= 2 /\ input[2] \in BadStrings

\* C23: no expansion panics, and a string in a colour position that is
\* neither a colour name nor a hex colour stops the expansion with an error
\* at a token of the input.
C23_NoPanic ==
    /\ pc # "panic"
    /\ (pc # "start" /\ HasBadString) => pc = "error" /\ err.at >= 1

\* A side that was not set to a colour: absent, `!` or a reset.
NotSetSide(side) == side = <<>> \/ side[1].t \in {"NoChange", "Reset"}

\* The closing parameter of the other side, for a side whose closing the
\* revert clause settles: the colour it names, none for `!`, the default
\* reset for a reset of a side that was set to a colour.
OtherSettled(set, rev) == ~(IsSet(set) /\ rev = <<>>)

OtherClosing(set, rev, bg) ==
    IF rev # <<>> /\ rev[1].t = "NoChange" THEN <<>>
    ELSE RevertSideText(set, rev, bg)

\* C24: a side that was not set to a colour and whose revert is a reset or
\* absent has no closing parameter: the closing text is that of the other
\* side alone, and is empty when this holds of both sides.
C24_NeverSetNeverReset ==
    /\ \A set \in {<<>>, <<NoChange>>, <<Reset>>}, rev \in {<<>>, <<Reset>>} :
            ColorChange_mix(set, rev) = <<>>
    /\ (pc = "emit" /\ color_revert.t = "Pair") =>
            /\ (/\ NotSetSide(color.fg) /\ NotNamed(color_revert.fg)
                /\ NotSetSide(color.bg) /\ NotNamed(color_revert.bg)) => out.end = <<>>
            /\ (/\ NotSetSide(color.fg) /\ NotNamed(color_revert.fg)
                /\ OtherSettled(color.bg, color_revert.bg)) =>
                    out.end = SidesText(<<>>,
                                        OtherClosing(color.bg, color_revert.bg, TRUE))
            /\ (/\ NotSetSide(color.bg) /\ NotNamed(color_revert.bg)
                /\ OtherSettled(color.fg, color_revert.fg)) =>
                    out.end = SidesText(OtherClosing(color.fg, color_revert.fg, FALSE),
                                        <<>>)

\* Both sides are reset by `*`, and the revert clause names a colour for the
\* background only: the foreground, reset but never set, has no closing
\* parameter.
C24_Witness ==
    /\ pc = "emit"
    /\ input = <<P("*"), P(";"), S(T), P(";"), P("in"), red_lit>>
    /\ color.fg = <<Reset>>
    /\ color_revert.fg = <<Reset>>
    /\ out.end = <<ESC, "[", "4", "1", "m">>

\* C25: a colour attempt that fails leaves the cursor where it was: after an
\* out-of-domain colour at the start of the pair, the pair parser is still at
\* that token, which is not `in`, so the pair is empty and the parse stops
\* there with "empty color".
C25_NoConsume ==
    (pc # "start" /\ Len(input) >= 1 /\ input[1] \in OutOfDomain) =>
        /\ pc = "error"
        /\ err = [msg |-> "empty color", at |-> 1]
        /\ pos = 1

\* C26: the contents of color! never hold a `;`: the first `;` after the
\* template decision ends the contents and starts the revert clause, also
\* when no content precedes it.
C26_ContentsEndAtSemi == \A i \in 1..Len(contents) : contents[i] # P(";")

----------------------------------------------------------------------------
(* The template and the generator, under Spec *)

\* The template decision has been taken and the parse has not failed.
TemplateDecided == pc \in {"content", "revert", "reverted", "parsed", "emit"}

\* C27: once the template decision is taken, a template is present exactly
\* when the output mode is not Concat, so neither the assert! of the Concat
\* branch nor the unwrap() of the other branches of SgrData::tokens panics.
C27_TemplateIffNotConcat ==
    /\ TemplateDecided => ((template # <<>>) <=> (output # "Concat"))
    /\ pc = "emit" => out.call = OutputCall(output)
    /\ out.call # "panic"

\* sgr_bold!("T"): Concat, no template, the literal is the contents.
C27_Witness ==
    /\ pc = "emit"
    /\ input = <<S(T)>>
    /\ output = "Concat"
    /\ template = <<>>
    /\ contents = <<S(T)>>
    /\ out.call = "concat!"

----------------------------------------------------------------------------
(* One pass: the stages of an invocation of color!, in order *)

\* Invocations of color! of each kind: a colour of each form, an empty and a
\* non-empty content before a revert clause, a colour outside its domain.
InitPass ==
    /\ feature = FALSE
    /\ entry = color_macro
    /\ \/ \E c \in ColorSpecs, side \in {<<>>, <<P("in")>>} :
            input = side \o <<c, P(";"), S(T)>>
       \/ \E head \in ContentHeads, r \in {<<>>, <<red_lit>>, <<P("!")>>} :
            input = <<green_lit, P(";")>> \o head \o <<P(";")>> \o r
       \/ \E c \in OutOfDomain \cup BadStrings :
            \E pair \in {<<c>>, <<P("in"), c>>, <<c, P("in"), green_lit>>} :
                input = pair \o <<P(";"), S(T)>>
    /\ InitRest

\* The expansion runs to its end: rustc calls the macro function and waits for
\* its return, so a stage that can be taken is taken.
\* ParseArg is fair as well: it can be taken exactly when CanParseArg holds.
AfterArg ==
    \/ ParseOutput
    \/ TemplateDecision
    \/ ColorContentToken
    \/ ParseRevert
    \/ EndParse
    \/ Emit

SpecPass ==
    /\ InitPass
    /\ [][NextColor]_vars
    /\ ([]<>(~CanParseArg) \/ []<><<ParseArg>>_vars)
    /\ WF_vars(AfterArg)

Stages ==
    <<"start", "arg", "behavior", "content", "revert", "reverted", "parsed",
      "emit", "error">>

Rank(stage) == CHOOSE i \in 1..Len(Stages) : Stages[i] = stage

\* A step moves to a later stage, or stays in the content loop and consumes
\* one token.
StageOrder ==
    /\ pc \in {"emit", "error"} => pc' = pc
    /\ pc' \in {Stages[i] : i \in 1..Len(Stages)}
    /\ pc' # pc => Rank(pc') > Rank(pc)
    /\ pc' = pc /\ pc \notin {"emit", "error"} =>
           pc = "content" /\ pos' = pos + 1 /\ pos <= Len(input)

Ended == pc \in {"emit", "error"}

Count(b) == IF b THEN 1 ELSE 0

\* Exactly one stage can be taken in a state that is not an end.
OneStage ==
    Count(CanParseArg) + Count(ENABLED ParseOutput)
        + Count(ENABLED TemplateDecision) + Count(ENABLED ColorContentToken)
        + Count(ENABLED ParseRevert) + Count(ENABLED EndParse)
        + Count(ENABLED Emit) = 1

\* C28: an invocation goes through its stages once each and in order, one
\* stage at a time, the content loop consuming a token at each turn, and it
\* ends at emit or with a parse error.
C28_OnePass ==
    /\ [][StageOrder]_vars
    /\ [](Ended \/ OneStage)
    /\ <>Ended

----------------------------------------------------------------------------
(* src/sgr/rgb.rs: From<u32> for Rgb and From<Rgb> for u32, on words *)

rgb_word == Macro("Rgb", "word", 0, 0, FALSE)

\* Bytes, the ends and the middle of the range and its single bits.
Bytes == {0, 1, 2, 127, 128, 254, 255}

\* 32-bit words: every choice of four bytes.
Words ==
    {[hi |-> a, lo |-> r * 65536 + g * 256 + b] : a \in {0, 1, 255}, r \in Bytes,
                                                   g \in Bytes, b \in Bytes}

W(word) == [k |-> "u32", v |-> word]

InitWord ==
    /\ feature = FALSE
    /\ entry = rgb_word
    /\ \E word \in Words : input = <<W(word)>>
    /\ InitRest

\* Rgb::from(word)
FromWord ==
    /\ pc = "start"
    /\ entry.kind = "word"
    /\ color' = Rgb_from_u32(input[pos].v)
    /\ pos' = pos + 1
    /\ pc' = "arg"
    /\ UNCHANGED <<entry, feature, input, color_revert, output, revert, template,
                   get_more, contents, unexpected, err, out>>

\* u32::from(rgb)
IntoWord ==
    /\ pc = "arg"
    /\ entry.kind = "word"
    /\ out' = [NoOut EXCEPT !.args = <<W(u32_from_Rgb(color))>>]
    /\ pc' = "emit"
    /\ UNCHANGED <<entry, feature, input, pos, color, color_revert, output, revert,
                   template, get_more, contents, unexpected, err>>

NextWord ==
    \/ FromWord
    \/ IntoWord

SpecWord == InitWord /\ [][NextWord]_vars

\* Bits lo..lo+7 of the low 24 bits of a word.
Bits(word, lo) == (word.lo \div (2 ^ lo)) % (2 ^ 8)

\* C29: a word of at most 24 bits becomes the Rgb with alpha 0, r its bits
\* 16..23, g its bits 8..15 and b its bits 0..7 (the big-endian bytes), and
\* that Rgb becomes the same word again.
C29_RoundTrip ==
    input[1].v.hi = 0 =>
        /\ pc \in {"arg", "emit"} =>
               color = [a |-> 0, r |-> Bits(input[1].v, 16),
                        g |-> Bits(input[1].v, 8), b |-> Bits(input[1].v, 0)]
        /\ pc = "emit" => out.args = input

\* 0x00FF7F01 becomes (0, 255, 127, 1) and 0x00FF7F01 again.
C29_Witness ==
    /\ pc = "emit"
    /\ input = <<W([hi |-> 0, lo |-> 16744193])>>
    /\ color = [a |-> 0, r |-> 255, g |-> 127, b |-> 1]
    /\ out.args = <<W([hi |-> 0, lo |-> 16744193])>>

----------------------------------------------------------------------------
(* The sequences color! renders, under SpecColor *)

\* Nothing, or ESC [ p m with at least one character of parameters.
EmptyOrParams(text) ==
    \/ text = <<>>
    \/ /\ Len(text) > 3
       /\ SubSeq(text, 1, 2) = <<ESC, "[">>
       /\ text[Len(text)] = "m"

SomeSides == {<<>>, <<NoChange>>, <<Reset>>, <<Set(Basic(32, FALSE))>>}

\* C30: the opening and the closing of color! are each empty or ESC[<p>m with
\* p not empty, never the bare ESC[m: a pair of `!` and a closing that mixing
\* leaves without sides render as nothing.
C30_NoBareReset ==
    /\ \A fg \in SomeSides, bg \in SomeSides :
            EmptyOrParams(render(Pair_params(fg, bg)))
    /\ pc = "emit" =>
            /\ EmptyOrParams(out.fmt)
            /\ EmptyOrParams(out.end)
            /\ color.fg \in {<<>>, <<NoChange>>} /\ color.bg \in {<<>>, <<NoChange>>}
                   => out.fmt = <<>>
            /\ SgrColor_fmt_closing(color, color_revert) \in
                   {Pair(<<>>, <<>>), ResetNone} => out.end = <<>>

\* color!(! in !; "T"): nothing is set and the default revert is mixed away.
C30_Witness ==
    /\ pc = "emit"
    /\ input = <<P("!"), P("in"), P("!"), P(";"), S(T)>>
    /\ color = Pair(<<NoChange>>, <<NoChange>>)
    /\ color_revert = reset_either
    /\ out.fmt = <<>>
    /\ out.end = <<>>

=============================================================================
